---- MODULE Spec2Model ----
(***************************************************************************)
(* korp: orphaned-resource scanner and cleaner for Kubernetes.             *)
(*                                                                         *)
(* The module models three pieces of the repository:                       *)
(*   - Cleaner.Clean            (pkg/cleanup/cleaner.go)                   *)
(*   - WebhookNotifier.Send     (pkg/notifier, webhook.go)                 *)
(*   - KorpScanReconciler.Reconcile with Scanner.Scan                      *)
(*                                                                         *)
(* Time.  Every timestamp of the program (DetectedAt, LastScanTime,        *)
(* ScanTime, DeletedAt, ...) is stored as the time elapsed since it, in    *)
(* minutes: metav1.Now() is 0, time.Since(t) is t itself, and the action   *)
(* Tick ages every stored timestamp.  Ages saturate at AgeCap, which is    *)
(* above every threshold the program compares an age with.                 *)
(*                                                                         *)
(* Pointers.  A Go pointer field is a sequence: <<>> is nil, <<v>> is &v.  *)
(***************************************************************************)
EXTENDS Integers, Sequences, FiniteSets, TLC

VARIABLES
    spec,       \* KorpScan.Spec, the policy (never written by the program)
    cluster,    \* the live cluster objects other than the KorpScan itself
    status,     \* KorpScan.Status as persisted in the API server
    obj,        \* korpScan.Status, the in-memory copy Reconcile works on
    pc,         \* where Reconcile / Clean / Send stands
    result,     \* *scan.ScanResult of the current pass (Clean's findings)
    clean,      \* Clean's locals: loop index and *CleanupResult
    send,       \* Send's locals: attempt, lastErr, the delays waited, return
    ctxDone,    \* ctx.Done() is closed
    ret,        \* what the last Reconcile returned
    events,     \* the events the current call of Reconcile has emitted
    log,        \* observation: per-finding record of what Clean did
    gathered,   \* observation: the findings a failed Scan had appended to its result
    passes      \* observation: the HistoryEntry of each pass that persisted Completed

vars == <<spec, cluster, status, obj, pc, result, clean, send, ctxDone, ret, events, log,
          gathered, passes>>

----------------------------------------------------------------------------
(* Bounds of the model *)

MaxFindings == 2        \* longest findings list handed to Clean directly
MaxRetriesDrawn == 2    \* largest explicit RetryPolicy.MaxRetries drawn
AgeCapDays == 3         \* ages saturate at this many days
MaxFailureCount == 2    \* no pass starts once this many webhook failures are on record

(* Program constants *)

DefaultMinAgeDays == 7
DefaultIntervalMinutes == 60
DefaultHistoryLimit == 5
defaultMaxRetries == 3
defaultInitialDelaySeconds == 1

Minute == 1
Hour == 60 * Minute
Day == 24 * Hour
AgeCap == AgeCapDays * Day

Min(a, b) == IF a < b THEN a ELSE b

RECURSIVE SumSeq(_)
SumSeq(s) == IF s = <<>> THEN 0 ELSE Head(s) + SumSeq(Tail(s))

Take(s, n) == SubSeq(s, 1, Min(n, Len(s)))

Range(s) == { s[i] : i \in DOMAIN s }

----------------------------------------------------------------------------
(* Resource kinds *)

\* Scanner.Scan's default list of resource types, in its order
DefaultTypes ==
    << "configmaps", "secrets", "pvcs", "services", "deployments", "jobs", "ingresses",
       "statefulsets", "daemonsets", "cronjobs", "replicasets", "serviceaccounts",
       "roles", "clusterroles", "rolebindings", "clusterrolebindings",
       "networkpolicies", "poddisruptionbudgets", "hpas" >>

\* Cleaner.isResourceTypeAllowed's typeMapping: Finding.ResourceType -> spec name
typeMapping ==
    [ ConfigMap |-> "configmaps", Secret |-> "secrets", PersistentVolumeClaim |-> "pvcs",
      Service |-> "services", Deployment |-> "deployments", StatefulSet |-> "statefulsets",
      DaemonSet |-> "daemonsets", Job |-> "jobs", CronJob |-> "cronjobs",
      ReplicaSet |-> "replicasets", ServiceAccount |-> "serviceaccounts",
      Ingress |-> "ingresses" ]

\* the kinds getResourceLabels has a case for
LabelKinds ==
    { "ConfigMap", "Secret", "PersistentVolumeClaim", "Service", "Deployment",
      "StatefulSet", "DaemonSet", "Job", "CronJob", "ReplicaSet", "ServiceAccount",
      "Ingress" }

\* the kinds deleteResource has a case for
DeleteKinds ==
    { "ConfigMap", "Secret", "PersistentVolumeClaim", "Service", "Deployment",
      "StatefulSet", "DaemonSet", "Job", "CronJob", "ReplicaSet", "ServiceAccount",
      "Ingress" }

----------------------------------------------------------------------------
(* The cluster: a fixed universe of objects, each existing or not *)

Objects ==
    { [kind |-> "ConfigMap",   ns |-> "a", name |-> "cm"],
      [kind |-> "Role",        ns |-> "a", name |-> "ro"],
      [kind |-> "ClusterRole", ns |-> "",  name |-> "cr"],
      [kind |-> "ConfigMap",   ns |-> "b", name |-> "cm"] }

\* the namespaces of the cluster and the names of its objects, in list order
Namespaces == <<"a", "b">>

NameOrder == <<"cm", "cr", "ro">>

LabelKeys == { "keep", "team" }

Key(f) == [kind |-> f.ResourceType, ns |-> f.Namespace, name |-> f.Name]

Exists(o) == o \in DOMAIN cluster /\ cluster[o].exists

----------------------------------------------------------------------------
(* api/v1alpha1: zero values and methods *)

SummaryCounters ==
    << "OrphanedConfigMaps", "OrphanedSecrets", "OrphanedPVCs", "ServicesWithoutEndpoints",
       "OrphanedDeployments", "OrphanedJobs", "OrphanedIngresses", "OrphanedStatefulSets",
       "OrphanedDaemonSets", "OrphanedCronJobs", "OrphanedReplicaSets",
       "OrphanedServiceAccounts", "OrphanedRoles", "OrphanedClusterRoles",
       "OrphanedRoleBindings", "OrphanedClusterRoleBindings", "OrphanedNetworkPolicies",
       "OrphanedPodDisruptionBudgets", "OrphanedHPAs", "OrphanedPVs", "OrphanedEndpoints",
       "OrphanedResourceQuotas" >>

ZeroSummary ==
    [k \in Range(SummaryCounters) \cup {"OrphanCount", "TotalResources"} |-> 0]

ZeroStatus ==
    [ LastScanTime |-> <<>>, Phase |-> "", Summary |-> ZeroSummary, Findings |-> <<>>,
      History |-> <<>>, Conditions |-> <<>>, WebhookStatus |-> <<>>,
      CleanupStatus |-> <<>> ]

ZeroCleanupSummary ==
    [ TotalEligible |-> 0, TotalDeleted |-> 0, TotalFailed |-> 0,
      TotalSkippedPreserved |-> 0, TotalSkippedAge |-> 0, DryRun |-> FALSE ]

ZeroResult == [Summary |-> ZeroSummary, Details |-> <<>>]

ZeroClean ==
    [ i |-> 1, Summary |-> ZeroCleanupSummary, DeletedResources |-> <<>>,
      FailedDeletions |-> <<>> ]

\* attempts, waits and cancelledAt observe the run: the response of each attempt made,
\* each backoff delay waited in full, and where Send stood when ctx was cancelled
ZeroSend ==
    [ attempt |-> 0, lastErr |-> <<>>, err |-> <<>>,
      attempts |-> <<>>, waits |-> <<>>, cancelledAt |-> "", payload |-> <<>> ]

ZeroRet == [RequeueAfter |-> 0, err |-> <<>>]

\* scan.newFinding
newFinding(resourceType, namespace, name, reason, detectedAt) ==
    [ Separator |-> "---",
      Description |-> <<resourceType, namespace, name, reason>>,
      ResourceType |-> resourceType, Name |-> name, Namespace |-> namespace,
      Reason |-> reason, DetectedAt |-> detectedAt ]

ZeroSpec ==
    [ TargetNamespace |-> "a", IntervalMinutes |-> 0, ResourceTypes |-> <<>>,
      Filters |-> [ExcludeLabels |-> {}, ExcludeNamePatterns |-> <<>>,
                   ExcludeNamespaces |-> <<>>],
      Reporting |-> [CreateEvents |-> FALSE, EventSeverity |-> "", HistoryLimit |-> 0,
                     Webhook |-> <<>>],
      Cleanup |-> <<>> ]

\* CleanupSpec.IsDryRun: nil means dry-run
IsDryRunNilFalse(c) == IF c.DryRun = <<>> THEN FALSE ELSE c.DryRun[1]

IsDryRun(c) == IF c.DryRun = <<>> THEN TRUE ELSE c.DryRun[1]

----------------------------------------------------------------------------
(* pkg/cleanup: Cleaner.Clean *)

\* the *CleanupSpec Clean is called with
CleanupOf == spec.Cleanup[1]

MinAgeNoDefault(c) == c.MinAgeDays * Day

\* minAge := MinAgeDays * 24h, 7 days when MinAgeDays == 0
MinAge(c) ==
    IF c.MinAgeDays = 0 THEN DefaultMinAgeDays * Day ELSE c.MinAgeDays * Day

\* the keys of the allowedTypes map
allowedTypes(c) == Range(c.ResourceTypes)

isResourceTypeAllowed(resourceType, allowed) ==
    /\ resourceType \in DOMAIN typeMapping
    /\ typeMapping[resourceType] \in allowed

\* getResourceLabels: a Get of the live object; getErr is a failure of the API call
getResourceLabels(f, getErr) ==
    IF f.ResourceType \in LabelKinds
    THEN IF Exists(Key(f)) /\ ~getErr
         THEN [err |-> "", labels |-> cluster[Key(f)].labels, call |-> TRUE]
         ELSE [err |-> IF Exists(Key(f)) THEN "ServerError" ELSE "NotFound",
               labels |-> {}, call |-> TRUE]
    ELSE [err |-> "unsupported resource type", labels |-> {}, call |-> FALSE]

hasPreservationLabelNever(f, preservationLabels, getErr) == FALSE

hasPreservationLabel(f, preservationLabels, getErr) ==
    IF Len(preservationLabels) = 0
    THEN FALSE
    ELSE LET r == getResourceLabels(f, getErr)
         IN  IF r.err # ""
             THEN FALSE
             ELSE \E i \in DOMAIN preservationLabels : preservationLabels[i] \in r.labels

\* whether hasPreservationLabel issues the Get
LabelLookupIssued(f, preservationLabels) ==
    Len(preservationLabels) > 0 /\ f.ResourceType \in LabelKinds

deleteResourceIgnoresNotFound(f, delErr) ==
    IF f.ResourceType \in DeleteKinds
    THEN IF ~Exists(Key(f)) THEN ""
         ELSE IF delErr THEN "ServerError" ELSE ""
    ELSE "unsupported resource type for deletion"

\* deleteResource's error ("" is nil); delErr is a failure of the API call
deleteResource(f, delErr) ==
    IF f.ResourceType \in DeleteKinds
    THEN IF ~Exists(Key(f)) THEN "NotFound"
         ELSE IF delErr THEN "ServerError" ELSE ""
    ELSE "unsupported resource type for deletion"

\* what one iteration of Clean's loop does with finding f
CleanBranch(f, c, getErr, delErr) ==
    IF Cardinality(allowedTypes(c)) > 0
       /\ ~isResourceTypeAllowed(f.ResourceType, allowedTypes(c))
    THEN "notAllowed"
    ELSE IF f.DetectedAt < MinAge(c)
    THEN "skippedAge"
    ELSE IF hasPreservationLabel(f, c.PreservationLabels, getErr)
    THEN "preserved"
    ELSE IF IsDryRun(c)
    THEN "deleted"
    ELSE IF deleteResource(f, delErr) # "" THEN "failed" ELSE "deleted"

Bump(s, field) == [s EXCEPT ![field] = @ + 1]

\* TotalEligible counted only past the age gate
CleanCountLate(s, branch) ==
    IF branch = "notAllowed" THEN s
    ELSE IF branch = "skippedAge" THEN Bump(s, "TotalSkippedAge")
    ELSE LET e == Bump(s, "TotalEligible")
         IN  CASE branch = "preserved"  -> Bump(e, "TotalSkippedPreserved")
               [] branch = "deleted"    -> Bump(e, "TotalDeleted")
               [] branch = "failed"     -> Bump(e, "TotalFailed")

CleanCount(s, branch) ==
    IF branch = "notAllowed" THEN s
    ELSE LET e == Bump(s, "TotalEligible")
         IN  CASE branch = "skippedAge" -> Bump(e, "TotalSkippedAge")
               [] branch = "preserved"  -> Bump(e, "TotalSkippedPreserved")
               [] branch = "deleted"    -> Bump(e, "TotalDeleted")
               [] branch = "failed"     -> Bump(e, "TotalFailed")

\* Clean, up to its loop: the empty result, and the early return when disabled
CleanEnter ==
    /\ pc = "Clean"
    /\ clean' = [ZeroClean EXCEPT !.Summary.DryRun = IsDryRun(CleanupOf)]
    /\ log' = <<>>
    /\ pc' = IF ~CleanupOf.Enabled \/ Len(result.Details) = 0
             THEN "CleanDone" ELSE "CleanLoop"
    /\ UNCHANGED <<spec, cluster, status, obj, result, send, ctxDone, ret, passes,
                   events, gathered>>

CleanStepRechecksRule ==
    /\ pc = "CleanLoop"
    /\ \E getErr \in BOOLEAN, delErr \in BOOLEAN :
         LET f == result.Details[clean.i]
             c == CleanupOf
             branch == CleanBranch(f, c, getErr, delErr)
             gated == branch \in {"preserved", "deleted", "failed"}
             lookup == gated /\ LabelLookupIssued(f, c.PreservationLabels)
             delCall == /\ branch \in {"deleted", "failed"}
                        /\ ~IsDryRun(c)
                        /\ f.ResourceType \in DeleteKinds
                        /\ cluster[Key(f)].orphan
         IN  /\ clean' =
                  [ clean EXCEPT
                      !.i = @ + 1,
                      !.Summary = CleanCount(@, branch),
                      !.DeletedResources =
                          IF branch = "deleted"
                          THEN Append(@, [ResourceType |-> f.ResourceType,
                                          Namespace |-> f.Namespace, Name |-> f.Name,
                                          DeletedAt |-> 0])
                          ELSE @,
                      !.FailedDeletions =
                          IF branch = "failed"
                          THEN Append(@, [ResourceType |-> f.ResourceType,
                                          Namespace |-> f.Namespace, Name |-> f.Name,
                                          Error |-> deleteResource(f, delErr)])
                          ELSE @ ]
             /\ cluster' =
                  IF delCall /\ branch = "deleted"
                  THEN [cluster EXCEPT ![Key(f)].exists = FALSE, ![Key(f)].labels = {}]
                  ELSE cluster
             /\ log' = Append(log,
                  [ finding |-> f, branch |-> branch,
                    hadLabel |-> /\ Exists(Key(f))
                                 /\ cluster[Key(f)].labels \cap Range(c.PreservationLabels) # {},
                    lookup |-> lookup, lookupErr |-> lookup /\ getErr,
                    deleteCall |-> delCall, gone |-> ~Exists(Key(f)) ])
             /\ pc' = IF clean.i = Len(result.Details) THEN "CleanDone" ELSE "CleanLoop"
    /\ UNCHANGED <<spec, status, obj, result, send, ctxDone, ret, passes, events, gathered>>

\* one iteration of Clean's loop over the findings
CleanStep ==
    /\ pc = "CleanLoop"
    /\ \E getErr \in BOOLEAN, delErr \in BOOLEAN :
         LET f == result.Details[clean.i]
             c == CleanupOf
             branch == CleanBranch(f, c, getErr, delErr)
             gated == branch \in {"preserved", "deleted", "failed"}
             lookup == gated /\ LabelLookupIssued(f, c.PreservationLabels)
             delCall == /\ branch \in {"deleted", "failed"}
                        /\ ~IsDryRun(c)
                        /\ f.ResourceType \in DeleteKinds
         IN  /\ clean' =
                  [ clean EXCEPT
                      !.i = @ + 1,
                      !.Summary = CleanCount(@, branch),
                      !.DeletedResources =
                          IF branch = "deleted"
                          THEN Append(@, [ResourceType |-> f.ResourceType,
                                          Namespace |-> f.Namespace, Name |-> f.Name,
                                          DeletedAt |-> 0])
                          ELSE @,
                      !.FailedDeletions =
                          IF branch = "failed"
                          THEN Append(@, [ResourceType |-> f.ResourceType,
                                          Namespace |-> f.Namespace, Name |-> f.Name,
                                          Error |-> deleteResource(f, delErr)])
                          ELSE @ ]
             /\ cluster' =
                  IF delCall /\ branch = "deleted"
                  THEN [cluster EXCEPT ![Key(f)].exists = FALSE, ![Key(f)].labels = {}]
                  ELSE cluster
             /\ log' = Append(log,
                  [ finding |-> f, branch |-> branch,
                    hadLabel |-> /\ Exists(Key(f))
                                 /\ cluster[Key(f)].labels \cap Range(c.PreservationLabels) # {},
                    lookup |-> lookup, lookupErr |-> lookup /\ getErr,
                    deleteCall |-> delCall, gone |-> ~Exists(Key(f)) ])
             /\ pc' = IF clean.i = Len(result.Details) THEN "CleanDone" ELSE "CleanLoop"
    /\ UNCHANGED <<spec, status, obj, result, send, ctxDone, ret, passes, events, gathered>>

----------------------------------------------------------------------------
(* pkg/notifier: WebhookNotifier.Send *)

\* errors are sequences: <<>> is nil
NoErr == <<>>

\* the WebhookConfig the notifier was built with
WebhookOf == spec.Reporting.Webhook[1]

maxRetriesOf(cfg) ==
    IF cfg.RetryPolicy # <<>> /\ cfg.RetryPolicy[1].MaxRetries >= 0
    THEN cfg.RetryPolicy[1].MaxRetries
    ELSE defaultMaxRetries

initialDelayOf(cfg) ==
    IF cfg.RetryPolicy # <<>> /\ cfg.RetryPolicy[1].InitialDelaySeconds > 0
    THEN cfg.RetryPolicy[1].InitialDelaySeconds
    ELSE defaultInitialDelaySeconds

BackoffDelayFromTwo(initialDelay, attempt) == initialDelay * 2 ^ attempt

\* delay := initialDelay * (1 << (attempt-1)) seconds
BackoffDelay(initialDelay, attempt) == initialDelay * 2 ^ (attempt - 1)

LoopGoesOnStrict(attempt, maxRetries) == attempt < maxRetries

\* the loop condition attempt <= maxRetries
LoopGoesOn(attempt, maxRetries) == attempt <= maxRetries

\* what the endpoint may answer: 0 is no response at all (a transport error)
Responses == {0, 199, 200, 299, 300, 500}

\* sendOnce's error for a response; with ctx cancelled the request itself fails
sendOnce(code, done) ==
    IF done \/ code = 0 THEN <<"failed to send request">>
    ELSE IF code < 200 \/ code >= 300
    THEN <<"webhook returned non-success status", code>>
    ELSE NoErr

SelectIgnoresDone(done) == {"elapsed"}

\* the select of the backoff wait: ctx.Done() if it is closed, else the timer
Select(done) == IF done THEN {"cancelled"} ELSE {"elapsed"}

\* sendWebhook's WebhookPayload: the Summary and the Details of the scan result
WebhookPayload(res) == [Summary |-> res.Summary, Findings |-> res.Details]

\* sendWebhook builds the payload and calls Send; Send up to its loop: attempt 0
\* starts at once
SendEnter ==
    /\ pc = "Send"
    /\ send' = [ZeroSend EXCEPT !.payload = << WebhookPayload(result) >>]
    /\ pc' = "SendOnce"
    /\ UNCHANGED <<spec, cluster, status, obj, result, clean, ctxDone, ret, log, passes,
                   events, gathered>>

\* one delivery attempt, and the end of the loop body
SendAttempt ==
    /\ pc = "SendOnce"
    /\ \E code \in IF ctxDone THEN {0} ELSE Responses :
         LET err == sendOnce(code, ctxDone)
             next == send.attempt + 1
         IN  IF err = NoErr
             THEN /\ send' = [send EXCEPT !.attempts = Append(@, code), !.err = NoErr]
                  /\ pc' = "SendDone"
             ELSE IF LoopGoesOn(next, maxRetriesOf(WebhookOf))
             THEN /\ send' = [send EXCEPT !.attempts = Append(@, code), !.lastErr = err,
                                          !.attempt = next]
                  /\ pc' = "SendWait"
             ELSE /\ send' = [send EXCEPT
                                !.attempts = Append(@, code), !.lastErr = err,
                                !.attempt = next,
                                !.err = <<"webhook failed after attempts",
                                          maxRetriesOf(WebhookOf) + 1, err>>]
                  /\ pc' = "SendDone"
    /\ UNCHANGED <<spec, cluster, status, obj, result, clean, ctxDone, ret, log, passes,
                   events, gathered>>

\* the backoff wait before attempt send.attempt
SendWait ==
    /\ pc = "SendWait"
    /\ \E case \in Select(ctxDone) :
         IF case = "cancelled"
         THEN /\ send' = [send EXCEPT !.err = <<"context cancelled during retry backoff">>]
              /\ pc' = "SendDone"
         ELSE /\ send' = [send EXCEPT
                            !.waits = Append(@, BackoffDelay(initialDelayOf(WebhookOf),
                                                             send.attempt))]
              /\ pc' = "SendOnce"
    /\ UNCHANGED <<spec, cluster, status, obj, result, clean, ctxDone, ret, log, passes,
                   events, gathered>>

\* the cancellation signal of the enclosing reconciliation fires
Cancel ==
    /\ pc \in {"SendOnce", "SendWait"}
    /\ ~ctxDone
    /\ ctxDone' = TRUE
    /\ send' = [send EXCEPT !.cancelledAt = pc]
    /\ UNCHANGED <<spec, cluster, status, obj, pc, result, clean, ret, log, passes,
                   events, gathered>>

----------------------------------------------------------------------------
(* pkg/scan: Scanner.Scan *)

\* the scanX function behind each resource type name: the kind it lists, the
\* counter it adds to, the reason it gives, and whether it is cluster-scoped
ScanTable ==
    << [type |-> "configmaps", kind |-> "ConfigMap", counter |-> "OrphanedConfigMaps",
        reason |-> "NoOwnerReference", clusterScoped |-> FALSE],
       [type |-> "secrets", kind |-> "Secret", counter |-> "OrphanedSecrets",
        reason |-> "NoOwnerReference", clusterScoped |-> FALSE],
       [type |-> "pvcs", kind |-> "PersistentVolumeClaim", counter |-> "OrphanedPVCs",
        reason |-> "NoOwnerReference", clusterScoped |-> FALSE],
       [type |-> "services", kind |-> "Service", counter |-> "ServicesWithoutEndpoints",
        reason |-> "NoEndpoints", clusterScoped |-> FALSE],
       [type |-> "deployments", kind |-> "Deployment", counter |-> "OrphanedDeployments",
        reason |-> "ScaledToZero", clusterScoped |-> FALSE],
       [type |-> "jobs", kind |-> "Job", counter |-> "OrphanedJobs",
        reason |-> "CompletedOld", clusterScoped |-> FALSE],
       [type |-> "ingresses", kind |-> "Ingress", counter |-> "OrphanedIngresses",
        reason |-> "NoBackendService", clusterScoped |-> FALSE],
       [type |-> "statefulsets", kind |-> "StatefulSet", counter |-> "OrphanedStatefulSets",
        reason |-> "ScaledToZeroOrNoReadyPods", clusterScoped |-> FALSE],
       [type |-> "daemonsets", kind |-> "DaemonSet", counter |-> "OrphanedDaemonSets",
        reason |-> "NoScheduledPods", clusterScoped |-> FALSE],
       [type |-> "cronjobs", kind |-> "CronJob", counter |-> "OrphanedCronJobs",
        reason |-> "SuspendedNoRecentSuccess", clusterScoped |-> FALSE],
       [type |-> "replicasets", kind |-> "ReplicaSet", counter |-> "OrphanedReplicaSets",
        reason |-> "OrphanedNoOwner", clusterScoped |-> FALSE],
       [type |-> "serviceaccounts", kind |-> "ServiceAccount",
        counter |-> "OrphanedServiceAccounts",
        reason |-> "NotUsedByAnyPod", clusterScoped |-> FALSE],
       [type |-> "roles", kind |-> "Role", counter |-> "OrphanedRoles",
        reason |-> "NotReferencedByBinding", clusterScoped |-> FALSE],
       [type |-> "clusterroles", kind |-> "ClusterRole", counter |-> "OrphanedClusterRoles",
        reason |-> "NotReferencedByBinding", clusterScoped |-> TRUE],
       [type |-> "rolebindings", kind |-> "RoleBinding", counter |-> "OrphanedRoleBindings",
        reason |-> "ReferencesNonExistentRoleOrSubject", clusterScoped |-> FALSE],
       [type |-> "clusterrolebindings", kind |-> "ClusterRoleBinding",
        counter |-> "OrphanedClusterRoleBindings",
        reason |-> "ReferencesNonExistentRoleOrSubject", clusterScoped |-> TRUE],
       [type |-> "networkpolicies", kind |-> "NetworkPolicy",
        counter |-> "OrphanedNetworkPolicies",
        reason |-> "NoMatchingPods", clusterScoped |-> FALSE],
       [type |-> "poddisruptionbudgets", kind |-> "PodDisruptionBudget",
        counter |-> "OrphanedPodDisruptionBudgets",
        reason |-> "NoMatchingPods", clusterScoped |-> FALSE],
       [type |-> "hpas", kind |-> "HorizontalPodAutoscaler", counter |-> "OrphanedHPAs",
        reason |-> "TargetNotFound", clusterScoped |-> FALSE] >>

\* the case of the switch a type name selects, <<>> when it selects none
RowsOf(rt, clusterScoped) ==
    SelectSeq(ScanTable, LAMBDA row : row.type = rt /\ row.clusterScoped = clusterScoped)

getNamespacesToScan(sp) ==
    IF sp.TargetNamespace # "*"
    THEN << sp.TargetNamespace >>
    ELSE SelectSeq(Namespaces, LAMBDA item : item \notin Range(sp.Filters.ExcludeNamespaces))

\* regexp.MatchString on the patterns drawn: the names each valid pattern matches;
\* a pattern outside the table does not compile
PatternTable == [ c |-> {"cm", "cr"}, ro |-> {"ro"} ]

regexpMatchString(pattern, name) ==
    IF pattern \in DOMAIN PatternTable
    THEN [matched |-> name \in PatternTable[pattern], err |-> FALSE]
    ELSE [matched |-> FALSE, err |-> TRUE]

applyFiltersStopsAtInvalid(names, filters) ==
    IF Len(filters.ExcludeNamePatterns) = 0
    THEN names
    ELSE SelectSeq(names, LAMBDA candidate :
            ~\E i \in DOMAIN filters.ExcludeNamePatterns :
                LET m == regexpMatchString(filters.ExcludeNamePatterns[i], candidate)
                IN  /\ ~m.err /\ m.matched
                    /\ \A h \in 1..(i - 1) :
                          ~regexpMatchString(filters.ExcludeNamePatterns[h], candidate).err)

\* applyFilters: the names no valid exclusion pattern matches, in their order
applyFilters(names, filters) ==
    IF Len(filters.ExcludeNamePatterns) = 0
    THEN names
    ELSE SelectSeq(names, LAMBDA candidate :
            ~\E i \in DOMAIN filters.ExcludeNamePatterns :
                LET m == regexpMatchString(filters.ExcludeNamePatterns[i], candidate)
                IN  ~m.err /\ m.matched)

\* k8sutil.OrphanXs: the names of the kind's objects in ns its detection rule holds for
Orphans(cl, kind, ns) ==
    SelectSeq(NameOrder, LAMBDA listed :
        \E o \in Objects :
            /\ o.kind = kind /\ o.ns = ns /\ o.name = listed
            /\ cl[o].exists /\ cl[o].orphan)

\* scanConfigMaps, scanSecrets, ...: one shape for every kind; what a call adds
\* to its counter and the findings it appends to Details
scanKind(row, ns, sp, cl, detectedAt) ==
    LET filtered == applyFilters(Orphans(cl, row.kind, ns), sp.Filters)
    IN  [ counter |-> row.counter,
          added |-> Len(filtered),
          findings |-> [i \in 1..Len(filtered) |->
                          newFinding(row.kind, ns, filtered[i], row.reason, detectedAt)] ]

\* every requested type, cluster-scoped ones too, handled once per namespace
scanCallsPerNamespace(nss, types) ==
    LET perNs == [k \in 1..(Len(nss) * Len(types)) |->
                    LET rt == types[((k - 1) % Len(types)) + 1]
                    IN  IF RowsOf(rt, TRUE) # <<>>
                        THEN [ns |-> "", rows |-> RowsOf(rt, TRUE)]
                        ELSE [ ns |-> nss[((k - 1) \div Len(types)) + 1],
                               rows |-> RowsOf(rt, FALSE) ]]
    IN  SelectSeq(perNs, LAMBDA call : call.rows # <<>>)

\* the scanX calls Scan makes, in order: scanNamespace's switch for each namespace
\* and each requested type, then scanClusterScopedResources' switch for each type
scanCalls(nss, types) ==
    LET perNs == [k \in 1..(Len(nss) * Len(types)) |->
                    [ ns |-> nss[((k - 1) \div Len(types)) + 1],
                      rows |-> RowsOf(types[((k - 1) % Len(types)) + 1], FALSE) ]]
        once == [k \in 1..Len(types) |-> [ns |-> "", rows |-> RowsOf(types[k], TRUE)]]
    IN  SelectSeq(perNs \o once, LAMBDA call : call.rows # <<>>)

RECURSIVE Concat(_)
Concat(ss) == IF ss = <<>> THEN <<>> ELSE Head(ss) \o Concat(Tail(ss))

RECURSIVE AddedTo(_, _)
AddedTo(counter, done) ==
    IF done = <<>> THEN 0
    ELSE (IF Head(done).counter = counter THEN Head(done).added ELSE 0)
         + AddedTo(counter, Tail(done))

\* Scan's result when no list call fails: every call adds to its counter and to
\* Details; TotalResources is set at the end and OrphanCount is left alone
Scan(sp, cl) ==
    LET now == 0
        types == IF Len(sp.ResourceTypes) = 0 THEN DefaultTypes ELSE sp.ResourceTypes
        calls == scanCalls(getNamespacesToScan(sp), types)
        done == SubSeq([k \in DOMAIN calls |->
                            scanKind(calls[k].rows[1], calls[k].ns, sp, cl, now)],
                       1, Len(calls))
        details == Concat([k \in DOMAIN done |-> done[k].findings])
    IN  [ Summary |->
            [ c \in DOMAIN ZeroSummary |->
                IF c = "TotalResources" THEN Len(details)
                ELSE IF c = "OrphanCount" THEN 0
                ELSE AddedTo(c, done) ],
          Details |-> details ]

\* the calls of Scan that can fail: the namespace list (0) when every namespace
\* is scanned, and each scanX call
FailingCalls(sp) ==
    LET types == IF Len(sp.ResourceTypes) = 0 THEN DefaultTypes ELSE sp.ResourceTypes
    IN  (IF sp.TargetNamespace = "*" THEN {0} ELSE {})
        \cup (1..Len(scanCalls(getNamespacesToScan(sp), types)))

\* what each scanX call of Scan appends to result.Details, in call order
AppendedBy(sp, cl) ==
    LET types == IF Len(sp.ResourceTypes) = 0 THEN DefaultTypes ELSE sp.ResourceTypes
        calls == scanCalls(getNamespacesToScan(sp), types)
    IN  SubSeq([k \in DOMAIN calls |->
                  scanKind(calls[k].rows[1], calls[k].ns, sp, cl, 0).findings],
               1, Len(calls))

\* result.Details at the moment the call numbered `failing` returns its error:
\* what the calls before it appended
GatheredBefore(appended, failing) == Concat(SubSeq(appended, 1, failing - 1))

TotalOrphansNamespaced(s) ==
    SumSeq([i \in 1..12 |-> s[SummaryCounters[i]]])

\* ScanSummary.TotalOrphans
TotalOrphans(s) ==
    SumSeq([i \in DOMAIN SummaryCounters |-> s[SummaryCounters[i]]])

----------------------------------------------------------------------------
(* internal/controller: KorpScanReconciler.Reconcile *)
(*                                                                         *)
(* pc is "Idle" between two calls and "Return" when a call has set ret and *)
(* is about to return; the locals of a call are dropped when it returns.   *)
(* A call is short against the unit of time, so time passes between calls. *)

IntervalNoDefault(sp) == sp.IntervalMinutes * Minute

\* interval := IntervalMinutes * time.Minute, 60 minutes when that is 0
IntervalOf(sp) ==
    IF sp.IntervalMinutes * Minute = 0
    THEN DefaultIntervalMinutes * Minute
    ELSE sp.IntervalMinutes * Minute

\* time.Now().Before(LastScanTime.Add(interval))
NotDue(st, sp) == st.LastScanTime # <<>> /\ st.LastScanTime[1] < IntervalOf(sp)

\* historyLimit := Reporting.HistoryLimit, 5 when that is 0
HistoryLimitOf(sp) ==
    IF sp.Reporting.HistoryLimit = 0 THEN DefaultHistoryLimit ELSE sp.Reporting.HistoryLimit

AppendHistory(history, entry, limit) == Take(Append(history, entry), limit)

\* the new entry goes in front, then the slice is cut to the limit
PrependHistory(history, entry, limit) ==
    LET h == <<entry>> \o history
    IN  IF Len(h) > limit THEN SubSeq(h, 1, limit) ELSE h

\* how many of the latest stored passes the observation `passes` keeps: one more
\* than the history may hold
PassesKept ==
    1 + (IF spec.Reporting.HistoryLimit = 0 THEN DefaultHistoryLimit
         ELSE spec.Reporting.HistoryLimit)

\* meta.SetStatusCondition, without the transition time
updateCondition(conds, c) ==
    IF \E i \in DOMAIN conds : conds[i].Type = c.Type
    THEN [i \in DOMAIN conds |-> IF conds[i].Type = c.Type THEN c ELSE conds[i]]
    ELSE Append(conds, c)

\* r.Status().Update: the stored status when the call succeeds or fails
Update(o, ok) == IF ok THEN o ELSE status

\* a Status().Update can succeed only while ctx is live
UpdateOutcomes == IF ctxDone THEN {FALSE} ELSE BOOLEAN

\* the kinds EventReporter.getResourceObject can fetch
EventKinds ==
    { "ConfigMap", "Secret", "PersistentVolumeClaim", "Service", "ServiceAccount",
      "Deployment", "StatefulSet", "DaemonSet", "ReplicaSet", "Job", "CronJob",
      "Ingress", "Role", "ClusterRole", "RoleBinding", "ClusterRoleBinding" }

\* getResourceObject: the object of the finding, nil when its kind has no case
\* or the Get fails
getResourceObject(f) ==
    IF f.ResourceType \in EventKinds /\ Exists(Key(f)) THEN <<Key(f)>> ELSE <<>>

\* EventReporter.CreateEvents: one event on every finding whose object could
\* be fetched, then the summary event on the KorpScan
CreateEvents(sp, res) ==
    LET severity == IF sp.Reporting.EventSeverity = "" THEN "Warning"
                    ELSE sp.Reporting.EventSeverity
        onFinding(i) ==
            IF getResourceObject(res.Details[i]) = <<>> THEN <<>>
            ELSE << [ on |-> getResourceObject(res.Details[i])[1], type |-> severity,
                      reason |-> "Orphaned", message |-> <<res.Details[i].Reason>> ] >>
    IN  Concat([i \in 1..Len(res.Details) |-> onFinding(i)])
        \o << [ on |-> <<"KorpScan">>, type |-> "Normal", reason |-> "ScanCompleted",
                message |-> <<"Scan completed", TotalOrphans(res.Summary)>> ] >>

\* the message of the CleanupCompleted event
CleanupEventMessage(sum) ==
    << IF sum.DryRun THEN "[DRY-RUN] Cleanup completed" ELSE "Cleanup completed",
       sum.TotalDeleted, sum.TotalFailed, sum.TotalSkippedPreserved, sum.TotalSkippedAge >>

\* where Reconcile goes once the Completed status is stored, and after the cleanup
AfterCleanup(sp) == IF sp.Reporting.Webhook # <<>> THEN "Send" ELSE "Return"

AfterPersistIgnoresEnabled(sp) ==
    IF sp.Cleanup # <<>> THEN "Clean" ELSE AfterCleanup(sp)

AfterPersist(sp) ==
    IF sp.Cleanup # <<>> /\ sp.Cleanup[1].Enabled THEN "Clean" ELSE AfterCleanup(sp)

\* lines 734-759: the Get and the cadence check, when the scan is not due
ReconcileNotDue ==
    /\ pc = "Idle"
    /\ NotDue(status, spec)
    /\ obj' = status
    /\ ret' = [RequeueAfter |-> IntervalOf(spec) - status.LastScanTime[1], err |-> NoErr]
    /\ pc' = "Return"
    /\ UNCHANGED <<spec, cluster, status, result, clean, send, ctxDone, log, passes,
                   events, gathered>>

StartedStatusKeepsPhase(st) == st

\* line 762: the status a due pass writes before it scans
StartedStatus(st) == [st EXCEPT !.Phase = "Running"]

\* lines 734-766: the Get, the cadence check, and the Running update
ReconcileStart ==
    /\ pc = "Idle"
    /\ ~NotDue(status, spec)
    /\ status.WebhookStatus # <<>> => status.WebhookStatus[1].FailureCount < MaxFailureCount
    /\ \E ok \in UpdateOutcomes :
         LET o == StartedStatus(status)
         IN  /\ obj' = o
             /\ status' = Update(o, ok)
             /\ pc' = IF ok THEN "Scan" ELSE "Return"
             /\ ret' = IF ok THEN ret ELSE [RequeueAfter |-> 0, err |-> <<"update failed">>]
    /\ UNCHANGED <<spec, cluster, result, clean, send, ctxDone, log, passes, events, gathered>>

\* the error of a list or get call that Scan returns
ScanErr == <<"list failed">>

ScanFailedStatusKeepsPhase(o, err) ==
    [o EXCEPT !.Conditions = updateCondition(@,
                  [Type |-> "Ready", Status |-> "False", Reason |-> "ScanFailed",
                   Message |-> err])]

\* lines 774-779: the status after Scan returned err
ScanFailedStatus(o, err) ==
    [o EXCEPT !.Phase = "Failed",
              !.Conditions = updateCondition(@,
                  [Type |-> "Ready", Status |-> "False", Reason |-> "ScanFailed",
                   Message |-> err])]

ReconcileScanFailedPublishes ==
    /\ pc = "Scan"
    /\ \E appended \in {AppendedBy(spec, cluster)} :
         \E g \in {GatheredBefore(appended, failing) : failing \in FailingCalls(spec)} :
            /\ gathered' = g
            /\ \E ok \in UpdateOutcomes :
                 LET o == [ScanFailedStatus(obj, ScanErr) EXCEPT !.Findings = g]
                 IN  obj' = o /\ status' = Update(o, ok)
    /\ ret' = [RequeueAfter |-> IntervalOf(spec), err |-> ScanErr]
    /\ pc' = "Return"
    /\ UNCHANGED <<spec, cluster, result, clean, send, ctxDone, log, passes, events>>

\* lines 772-781: one of the calls Scan makes fails and Scan returns nil and
\* the error; what it had appended to its result is dropped with it
ReconcileScanFailed ==
    /\ pc = "Scan"
    /\ \E ok \in UpdateOutcomes :
         /\ obj' = ScanFailedStatus(obj, ScanErr)
         /\ status' = Update(ScanFailedStatus(obj, ScanErr), ok)
    /\ \E appended \in {AppendedBy(spec, cluster)} :
         \E g \in {GatheredBefore(appended, failing) : failing \in FailingCalls(spec)} :
            gathered' = g
    /\ ret' = [RequeueAfter |-> IntervalOf(spec), err |-> ScanErr]
    /\ pc' = "Return"
    /\ UNCHANGED <<spec, cluster, result, clean, send, ctxDone, log, passes, events>>

ReconcileScannedGoesOn ==
    /\ pc = "Scan"
    /\ \E ok \in UpdateOutcomes, res \in {Scan(spec, cluster)} :
         LET totalOrphans == TotalOrphans(res.Summary)
             entry == [ScanTime |-> 0, OrphanCount |-> totalOrphans, Duration |-> 0]
             o == [obj EXCEPT
                     !.LastScanTime = <<0>>,
                     !.Phase = "Completed",
                     !.Summary = [res.Summary EXCEPT !.OrphanCount = totalOrphans],
                     !.Findings = res.Details,
                     !.History = PrependHistory(@, entry, HistoryLimitOf(spec)),
                     !.Conditions = updateCondition(@,
                         [Type |-> "Ready", Status |-> "True", Reason |-> "ScanCompleted",
                          Message |-> <<"Found orphaned resources", totalOrphans>>])]
         IN  /\ result' = res
             /\ obj' = o
             /\ status' = Update(o, ok)
             /\ passes' = IF ok THEN Take(<<entry>> \o passes, PassesKept) ELSE passes
             /\ pc' = AfterPersist(spec)
             /\ ret' = IF ~ok THEN [RequeueAfter |-> 0, err |-> <<"update failed">>]
                       ELSE IF AfterPersist(spec) = "Return"
                       THEN [RequeueAfter |-> IntervalOf(spec), err |-> NoErr]
                       ELSE ret
             /\ events' = IF ok /\ spec.Reporting.CreateEvents
                          THEN events \o CreateEvents(spec, res)
                          ELSE events
    /\ UNCHANGED <<spec, cluster, clean, send, ctxDone, log, gathered>>

\* lines 772-819: the scan succeeds; the status is filled in and stored
ReconcileScanned ==
    /\ pc = "Scan"
    /\ \E ok \in UpdateOutcomes, res \in {Scan(spec, cluster)} :
         LET totalOrphans == TotalOrphans(res.Summary)
             entry == [ScanTime |-> 0, OrphanCount |-> totalOrphans, Duration |-> 0]
             o == [obj EXCEPT
                     !.LastScanTime = <<0>>,
                     !.Phase = "Completed",
                     !.Summary = [res.Summary EXCEPT !.OrphanCount = totalOrphans],
                     !.Findings = res.Details,
                     !.History = PrependHistory(@, entry, HistoryLimitOf(spec)),
                     !.Conditions = updateCondition(@,
                         [Type |-> "Ready", Status |-> "True", Reason |-> "ScanCompleted",
                          Message |-> <<"Found orphaned resources", totalOrphans>>])]
         IN  /\ result' = res
             /\ obj' = o
             /\ status' = Update(o, ok)
             /\ passes' = IF ok THEN Take(<<entry>> \o passes, PassesKept) ELSE passes
             /\ pc' = IF ok THEN AfterPersist(spec) ELSE "Return"
             /\ ret' = IF ~ok THEN [RequeueAfter |-> 0, err |-> <<"update failed">>]
                       ELSE IF AfterPersist(spec) = "Return"
                       THEN [RequeueAfter |-> IntervalOf(spec), err |-> NoErr]
                       ELSE ret
             /\ events' = IF ok /\ spec.Reporting.CreateEvents
                          THEN events \o CreateEvents(spec, res)
                          ELSE events
    /\ UNCHANGED <<spec, cluster, clean, send, ctxDone, log, gathered>>

ReconcileCleanedNeverDryRun ==
    /\ pc = "CleanDone"
    /\ \E ok \in UpdateOutcomes :
         LET resultType == IF clean.Summary.TotalFailed > 0 THEN "PartialFailure"
                           ELSE "Success"
             o == [obj EXCEPT
                     !.CleanupStatus =
                         << [ LastCleanupTime |-> 0, LastCleanupResult |-> resultType,
                              Summary |-> clean.Summary,
                              DeletedResources |-> clean.DeletedResources,
                              FailedDeletions |-> clean.FailedDeletions ] >>]
         IN  /\ obj' = o
             /\ status' = Update(o, ok)
    /\ pc' = AfterCleanup(spec)
    /\ ret' = IF AfterCleanup(spec) = "Return"
              THEN [RequeueAfter |-> IntervalOf(spec), err |-> NoErr]
              ELSE ret
    /\ events' = Append(events,
                    [ on |-> <<"KorpScan">>, type |-> "Normal", reason |-> "CleanupCompleted",
                      message |-> CleanupEventMessage(clean.Summary) ])
    /\ UNCHANGED <<spec, cluster, result, clean, send, ctxDone, log, passes, gathered>>

\* lines 833-867: Clean has returned; its outcome goes to the status
ReconcileCleaned ==
    /\ pc = "CleanDone"
    /\ \E ok \in UpdateOutcomes :
         LET resultType == IF clean.Summary.TotalFailed > 0 THEN "PartialFailure"
                           ELSE IF clean.Summary.DryRun THEN "DryRun"
                           ELSE "Success"
             o == [obj EXCEPT
                     !.CleanupStatus =
                         << [ LastCleanupTime |-> 0, LastCleanupResult |-> resultType,
                              Summary |-> clean.Summary,
                              DeletedResources |-> clean.DeletedResources,
                              FailedDeletions |-> clean.FailedDeletions ] >>]
         IN  /\ obj' = o
             /\ status' = Update(o, ok)
    /\ pc' = AfterCleanup(spec)
    /\ ret' = IF AfterCleanup(spec) = "Return"
              THEN [RequeueAfter |-> IntervalOf(spec), err |-> NoErr]
              ELSE ret
    /\ events' = Append(events,
                    [ on |-> <<"KorpScan">>, type |-> "Normal", reason |-> "CleanupCompleted",
                      message |-> CleanupEventMessage(clean.Summary) ])
    /\ UNCHANGED <<spec, cluster, result, clean, send, ctxDone, log, passes, gathered>>

WebhookStatusKeepsCount(prev, err) ==
    IF err # NoErr
    THEN [ LastSuccess |-> <<>>, LastFailure |-> <<0>>,
           FailureCount |-> (IF prev # <<>> THEN prev[1].FailureCount ELSE 0) + 1,
           LastError |-> err ]
    ELSE [ LastSuccess |-> <<0>>, LastFailure |-> <<>>,
           FailureCount |-> IF prev # <<>> THEN prev[1].FailureCount ELSE 0,
           LastError |-> NoErr ]

\* lines 875-904: the WebhookStatus written after Send returned err
WebhookStatusAfter(prev, err) ==
    IF err # NoErr
    THEN [ LastSuccess |-> <<>>, LastFailure |-> <<0>>,
           FailureCount |-> (IF prev # <<>> THEN prev[1].FailureCount ELSE 0) + 1,
           LastError |-> err ]
    ELSE [ LastSuccess |-> <<0>>, LastFailure |-> <<>>,
           FailureCount |-> 0, LastError |-> NoErr ]

NotifiedResultReturnsErr(interval, webhookErr) ==
    [RequeueAfter |-> interval, err |-> webhookErr]

\* line 915: what Reconcile returns after the webhook step, whatever Send returned
NotifiedResult(interval, webhookErr) ==
    [RequeueAfter |-> interval, err |-> NoErr]

ReconcileNotifiedForgetsCount ==
    /\ pc = "SendDone"
    /\ \E ok \in UpdateOutcomes :
         LET o == [obj EXCEPT !.WebhookStatus = << WebhookStatusAfter(<<>>, send.err) >>]
         IN  /\ obj' = o
             /\ status' = Update(o, ok)
    /\ ret' = NotifiedResult(IntervalOf(spec), send.err)
    /\ pc' = "Return"
    /\ events' = IF send.err # NoErr
                 THEN Append(events,
                        [ on |-> <<"KorpScan">>, type |-> "Warning", reason |-> "WebhookFailed",
                          message |-> send.err ])
                 ELSE events
    /\ UNCHANGED <<spec, cluster, result, clean, send, ctxDone, log, passes, gathered>>

\* lines 872-915: Send has returned; the delivery state goes to the status
ReconcileNotified ==
    /\ pc = "SendDone"
    /\ \E ok \in UpdateOutcomes :
         LET o == [obj EXCEPT !.WebhookStatus =
                                 << WebhookStatusAfter(obj.WebhookStatus, send.err) >>]
         IN  /\ obj' = o
             /\ status' = Update(o, ok)
    /\ ret' = NotifiedResult(IntervalOf(spec), send.err)
    /\ pc' = "Return"
    /\ events' = IF send.err # NoErr
                 THEN Append(events,
                        [ on |-> <<"KorpScan">>, type |-> "Warning", reason |-> "WebhookFailed",
                          message |-> send.err ])
                 ELSE events
    /\ UNCHANGED <<spec, cluster, result, clean, send, ctxDone, log, passes, gathered>>

\* the call returns: its locals and its ctx are gone
ReconcileReturn ==
    /\ pc = "Return"
    /\ pc' = "Idle"
    /\ obj' = ZeroStatus
    /\ result' = ZeroResult
    /\ clean' = ZeroClean
    /\ send' = ZeroSend
    /\ ctxDone' = FALSE
    /\ ret' = ZeroRet
    /\ log' = <<>>
    /\ events' = <<>>
    /\ gathered' = <<>>
    /\ UNCHANGED <<spec, cluster, status, passes>>

----------------------------------------------------------------------------
(* Time passes, between two calls of Reconcile *)

TickStep == Day

Aged(t) == Min(t + TickStep, AgeCap)

AgedPtr(p) == IF p = <<>> THEN <<>> ELSE << Aged(p[1]) >>

AgedStatus(st) ==
    [ st EXCEPT
        !.LastScanTime = AgedPtr(@),
        !.Findings = [i \in DOMAIN @ |-> [@[i] EXCEPT !.DetectedAt = Aged(@)]],
        !.History = [i \in DOMAIN @ |-> [@[i] EXCEPT !.ScanTime = Aged(@)]],
        !.WebhookStatus =
            IF @ = <<>> THEN <<>>
            ELSE << [@[1] EXCEPT !.LastSuccess = AgedPtr(@), !.LastFailure = AgedPtr(@)] >>,
        !.CleanupStatus =
            IF @ = <<>> THEN <<>>
            ELSE << [@[1] EXCEPT
                       !.LastCleanupTime = Aged(@),
                       !.DeletedResources =
                           [i \in DOMAIN @ |-> [@[i] EXCEPT !.DeletedAt = Aged(@)]]] >> ]

Tick ==
    /\ pc = "Idle"
    /\ status' = AgedStatus(status)
    /\ passes' = [i \in DOMAIN passes |-> [passes[i] EXCEPT !.ScanTime = Aged(@)]]
    /\ UNCHANGED <<spec, cluster, obj, pc, result, clean, send, ctxDone, ret, log,
                   events, gathered>>

----------------------------------------------------------------------------
(* Other actors of the cluster (spec section 5): they may remove a live object *)
(* or change whether the detection rule of its kind holds for it, at any time  *)

\* only Scan and Clean's loop read the cluster
ReadsAhead == pc \in {"Idle", "Clean", "CleanLoop"}

OtherActorDeletes ==
    /\ ReadsAhead
    /\ \E o \in Objects :
         /\ cluster[o].exists
         /\ cluster' = [cluster EXCEPT ![o].exists = FALSE, ![o].labels = {}]
    /\ UNCHANGED <<spec, status, obj, pc, result, clean, send, ctxDone, ret, log, passes,
                   events, gathered>>

OtherActorChanges ==
    /\ ReadsAhead
    /\ \E o \in Objects :
         /\ cluster[o].exists
         /\ cluster' = [cluster EXCEPT ![o].orphan = ~@]
    /\ UNCHANGED <<spec, status, obj, pc, result, clean, send, ctxDone, ret, log, passes,
                   events, gathered>>

----------------------------------------------------------------------------
(* Cleaner.Clean called directly: any findings list, any cleanup policy *)

ReasonOf(kind) ==
    CASE kind = "ConfigMap" -> "NoOwnerReference"
      [] kind = "Role" -> "NotReferencedByBinding"
      [] kind = "ClusterRole" -> "NotReferencedByBinding"
      [] OTHER -> "Orphaned"

\* ages of the findings drawn: below a day, a day, and the default minimum age
FindingAges == { Day - Minute, Day, DefaultMinAgeDays * Day }

DrawnFindings ==
    { newFinding(o.kind, o.ns, o.name, ReasonOf(o.kind), a) : o \in Objects, a \in FindingAges }

\* the findings lists of at most MaxFindings findings, no object twice
FindingLists ==
    UNION { { fs \in [1..n -> DrawnFindings] :
                \A i, j \in 1..n : i # j => Key(fs[i]) # Key(fs[j]) } : n \in 0..MaxFindings }

CleanSpecs ==
    { [ Enabled |-> en, DryRun |-> dr, ResourceTypes |-> rts, MinAgeDays |-> d,
        PreservationLabels |-> pl ] :
        en \in BOOLEAN, dr \in {<<>>, <<TRUE>>, <<FALSE>>},
        rts \in {<<>>, <<"configmaps">>, <<"roles">>},
        d \in {0, 1, DefaultMinAgeDays}, pl \in {<<>>, <<"keep">>} }

\* the cluster: each object a finding names exists or not, labelled "keep" or not
ClustersFor(fs) ==
    { cl \in [Objects -> [exists : BOOLEAN, orphan : {TRUE}, labels : {{}, {"keep"}}]] :
        \A o \in Objects :
            /\ ~cl[o].exists => cl[o].labels = {}
            /\ (\A i \in DOMAIN fs : Key(fs[i]) # o) => ~cl[o].exists }

InitClean ==
    /\ \E c \in CleanSpecs : spec = [ZeroSpec EXCEPT !.Cleanup = <<c>>]
    /\ \E fs \in FindingLists :
         /\ result = [Summary |-> ZeroSummary, Details |-> fs]
         /\ cluster \in ClustersFor(fs)
    /\ status = ZeroStatus
    /\ obj = ZeroStatus
    /\ pc = "Clean"
    /\ clean = ZeroClean
    /\ send = ZeroSend
    /\ ctxDone = FALSE
    /\ ret = ZeroRet
    /\ events = <<>>
    /\ gathered = <<>>
    /\ log = <<>>
    /\ passes = <<>>

\* Reconcile calls Clean only for an enabled policy, and then stores its outcome
CleanedInPass == CleanupOf.Enabled /\ ReconcileCleaned

NextClean == CleanEnter \/ CleanStep \/ OtherActorDeletes \/ CleanedInPass

SpecClean == InitClean /\ [][NextClean]_vars

----------------------------------------------------------------------------
(* Cleaner.Clean called directly while another actor changes what the findings *)
(* name: the detection rule stops or starts to hold for an object              *)

RaceSpecs ==
    { c \in CleanSpecs : c.Enabled /\ c.DryRun # <<>> /\ c.MinAgeDays = 1
                          /\ c.ResourceTypes # <<"configmaps">> }

InitRace ==
    /\ \E c \in RaceSpecs : spec = [ZeroSpec EXCEPT !.Cleanup = <<c>>]
    /\ \E fs \in FindingLists :
         /\ result = [Summary |-> ZeroSummary, Details |-> fs]
         /\ cluster \in ClustersFor(fs)
    /\ status = ZeroStatus
    /\ obj = ZeroStatus
    /\ pc = "Clean"
    /\ clean = ZeroClean
    /\ send = ZeroSend
    /\ ctxDone = FALSE
    /\ ret = ZeroRet
    /\ events = <<>>
    /\ gathered = <<>>
    /\ log = <<>>
    /\ passes = <<>>

NextRace == CleanEnter \/ CleanStep \/ OtherActorChanges

SpecRace == InitRace /\ [][NextRace]_vars

----------------------------------------------------------------------------
(* Properties of Cleaner.Clean, checked under SpecClean *)

InClean == pc \in {"CleanLoop", "CleanDone"}

\* the findings Clean has processed so far that came past the three gates
PastGates == { i \in DOMAIN log : log[i].branch \in {"deleted", "failed"} }

\* the findings processed so far that came past the allow-list gate
Eligible == { i \in DOMAIN log : log[i].branch # "notAllowed" }

NameOf(r) == <<r.ResourceType, r.Namespace, r.Name>>

\* the names of the findings processed so far that took the branch b, in order
RECURSIVE NamesOn(_, _)
NamesOn(l, b) ==
    IF l = <<>> THEN <<>>
    ELSE (IF Head(l).branch = b THEN <<NameOf(Head(l).finding)>> ELSE <<>>)
         \o NamesOn(Tail(l), b)

NamesIn(rs) == [i \in DOMAIN rs |-> NameOf(rs[i])]

C2_PreservedIsSkipped ==
    InClean =>
        \A i \in DOMAIN log :
            ( /\ log[i].branch \notin {"notAllowed", "skippedAge"}
              /\ log[i].hadLabel
              /\ ~log[i].lookupErr ) =>
                /\ log[i].branch = "preserved"
                /\ ~log[i].deleteCall
                /\ \A j \in DOMAIN clean.DeletedResources :
                     NameOf(clean.DeletedResources[j]) # NameOf(log[i].finding)

\* C3: TotalEligible is the sum of the four outcome counters, each eligible finding
\* is counted in exactly one of them, and the two lists are as long as their counters
C3_CleanupAccounting ==
    InClean =>
        LET s == clean.Summary
            n(b) == Cardinality({ i \in DOMAIN log : log[i].branch = b })
        IN  /\ s.TotalEligible =
                 s.TotalDeleted + s.TotalFailed + s.TotalSkippedPreserved + s.TotalSkippedAge
            /\ s.TotalEligible = Cardinality(Eligible)
            /\ s.TotalDeleted = n("deleted")
            /\ s.TotalFailed = n("failed")
            /\ s.TotalSkippedPreserved = n("preserved")
            /\ s.TotalSkippedAge = n("skippedAge")
            /\ Len(clean.DeletedResources) = s.TotalDeleted
            /\ Len(clean.FailedDeletions) = s.TotalFailed

\* a finished Clean whose findings fell into two different counters
C3_Witness ==
    /\ pc = "CleanDone"
    /\ clean.Summary.TotalEligible = 2
    /\ clean.Summary.TotalSkippedAge = 1
    /\ clean.Summary.TotalFailed = 1

\* C4: an eligible finding younger than the minimum age (MinAgeDays days, 7 days when
\* MinAgeDays is 0) is counted in TotalSkippedAge and is neither deleted nor listed
C4_YoungIsSkipped ==
    InClean =>
        LET days == IF CleanupOf.MinAgeDays = 0 THEN 7 ELSE CleanupOf.MinAgeDays
            young == { i \in Eligible : log[i].finding.DetectedAt < days * 24 * 60 }
        IN  /\ \A i \in young :
                 /\ log[i].branch = "skippedAge"
                 /\ ~log[i].deleteCall
                 /\ \A j \in DOMAIN clean.DeletedResources :
                      NameOf(clean.DeletedResources[j]) # NameOf(log[i].finding)
            /\ clean.Summary.TotalSkippedAge >= Cardinality(young)

\* a finding detected one day ago was skipped on age under the 7-day minimum
C4_Witness ==
    /\ pc = "CleanDone"
    /\ CleanupOf.MinAgeDays \in {0, 7}
    /\ \E i \in DOMAIN log :
         /\ log[i].finding.DetectedAt = 24 * 60
         /\ log[i].branch = "skippedAge"
    /\ clean.Summary.TotalSkippedAge >= 1

\* the findings processed so far for which a delete call was issued on an
\* object that was no longer there
DeletedUnderneath == { i \in DOMAIN log : log[i].deleteCall /\ log[i].gone }

\* the entries of a list of DeletedResource or FailedDeletion that name finding f
EntriesFor(rs, f) == { j \in DOMAIN rs : NameOf(rs[j]) = NameOf(f) }

\* C18: when a found resource is gone by the time Clean issues its delete call,
\* the failed delete is one entry of FailedDeletions, counted in TotalFailed, and
\* the resource is not listed as deleted; Clean goes on to the end of the
\* findings and returns no error, and the pass stores the outcome as a
\* PartialFailure and returns no error
C18_LostRaceIsOneFailure ==
    /\ pc \in {"CleanLoop", "CleanDone", "Return"} =>
         /\ \A i \in DeletedUnderneath :
              /\ log[i].branch = "failed"
              /\ Cardinality(EntriesFor(clean.FailedDeletions, log[i].finding)) = 1
              /\ \A j \in EntriesFor(clean.FailedDeletions, log[i].finding) :
                   clean.FailedDeletions[j].Error = "NotFound"
              /\ EntriesFor(clean.DeletedResources, log[i].finding) = {}
         /\ clean.Summary.TotalFailed >= Cardinality(DeletedUnderneath)
         /\ clean.Summary.TotalFailed = Len(clean.FailedDeletions)
    /\ (pc \in {"CleanDone", "Return"} /\ CleanupOf.Enabled) =>
         Len(log) = Len(result.Details)
    /\ (pc = "Return" /\ DeletedUnderneath # {}) =>
         /\ ret.err = NoErr
         /\ obj.CleanupStatus # <<>>
         /\ obj.CleanupStatus[1].LastCleanupResult = "PartialFailure"
         /\ obj.CleanupStatus[1].FailedDeletions = clean.FailedDeletions
         /\ obj.CleanupStatus[1].Summary = clean.Summary

\* the first of two findings was gone when Clean issued its delete and the
\* delete failed; the second was deleted; the pass stored both outcomes
C18_Witness ==
    /\ pc = "Return"
    /\ Len(log) = 2
    /\ log[1].deleteCall /\ log[1].gone /\ log[1].branch = "failed"
    /\ log[2].deleteCall /\ log[2].branch = "deleted"
    /\ clean.Summary.TotalFailed = 1 /\ clean.Summary.TotalDeleted = 1
    /\ ret.err = NoErr
    /\ status = obj

\* the findings processed so far that came past the three gates and whose kind
\* deleteResource has no case for
Unsupported == { i \in PastGates : log[i].finding.ResourceType \notin DeleteKinds }

\* C19: a finding past the allow-list, age and preservation gates whose kind has
\* no deletion handler is recorded in FailedDeletions with the unsupported-kind
\* error and is never counted or listed as deleted, in live mode and in dry-run
\* alike, and Clean goes on to the end of the findings
C19_UnsupportedKindFails ==
    /\ InClean =>
         \A i \in Unsupported :
            /\ log[i].branch = "failed"
            /\ \E j \in EntriesFor(clean.FailedDeletions, log[i].finding) :
                 clean.FailedDeletions[j].Error = "unsupported resource type for deletion"
            /\ EntriesFor(clean.DeletedResources, log[i].finding) = {}
    /\ (pc = "CleanDone" /\ CleanupOf.Enabled) => Len(log) = Len(result.Details)

\* the resource-type name under which the scanner reports a kind
TypeNameOf(kind) ==
    LET rows == SelectSeq(ScanTable, LAMBDA row : row.kind = kind)
    IN  IF rows = <<>> THEN "" ELSE rows[1].type

\* C21: with a non-empty allow-list a finding is counted eligible exactly when
\* the type name of its kind is on the list, for every kind the scanner
\* reports; a finding of another kind touches no counter and triggers no lookup
\* or delete; with an empty allow-list every finding is counted eligible
C21_AllowListByTypeName ==
    InClean =>
        /\ \A i \in DOMAIN log :
             IF CleanupOf.ResourceTypes = <<>>
             THEN log[i].branch # "notAllowed"
             ELSE (log[i].branch # "notAllowed") =
                     (TypeNameOf(log[i].finding.ResourceType) \in Range(CleanupOf.ResourceTypes))
        /\ \A i \in DOMAIN log :
             log[i].branch = "notAllowed" => ~log[i].lookup /\ ~log[i].deleteCall
        /\ clean.Summary.TotalEligible = Cardinality(Eligible)

\* the dry-run value the policy has in effect: true unless DryRun is set false
EffectiveDryRun == CleanupOf.DryRun \in {<<>>, <<TRUE>>}

\* the pass has published the outcome of its cleanup
CleanupPublished ==
    pc \in {"Send", "Return"} /\ CleanupOf.Enabled /\ obj.CleanupStatus # <<>>

C31_Witness ==
    /\ CleanupPublished /\ EffectiveDryRun
    /\ status = obj
    /\ status.CleanupStatus[1].LastCleanupResult = "DryRun"
    /\ status.CleanupStatus[1].Summary.TotalDeleted > 0

C31_WitnessSuccess ==
    /\ CleanupPublished /\ ~EffectiveDryRun
    /\ status = obj
    /\ status.CleanupStatus[1].LastCleanupResult = "Success"
    /\ status.CleanupStatus[1].Summary.TotalDeleted > 0

\* C39: cleanup does not evaluate the detection rule again before it deletes: in live
\* mode Clean issues the delete call for every finding of a kind it can delete that
\* comes past the allow-list, age and preservation gates, also when another actor has
\* made the resource non-orphaned since the scan; in dry-run mode it issues none
C39_NoRecheckBeforeDelete ==
    InClean =>
        \A i \in DOMAIN log :
            log[i].deleteCall <=>
                /\ i \in PastGates
                /\ ~IsDryRun(CleanupOf)
                /\ log[i].finding.ResourceType \in DeleteKinds

\* a live-mode Clean has deleted a resource that the detection rule had stopped to
\* hold for before the delete call
C39_Witness ==
    /\ InClean
    /\ ~IsDryRun(CleanupOf)
    /\ \E i \in DOMAIN log :
          /\ log[i].deleteCall /\ log[i].branch = "deleted"
          /\ ~cluster[Key(log[i].finding)].orphan
          /\ ~cluster[Key(log[i].finding)].exists

----------------------------------------------------------------------------
(* WebhookNotifier.Send called directly: any retry policy, any endpoint *)

RetryPolicies ==
    { <<>> } \cup
    { << [MaxRetries |-> m, InitialDelaySeconds |-> d] >> :
        m \in 0..MaxRetriesDrawn, d \in {0, 1, 2} }

WebhookConfigs == { [URL |-> "http://hook", RetryPolicy |-> rp] : rp \in RetryPolicies }

InitSend ==
    /\ \E cfg \in WebhookConfigs : spec = [ZeroSpec EXCEPT !.Reporting.Webhook = <<cfg>>]
    /\ cluster = [o \in Objects |-> [exists |-> FALSE, orphan |-> TRUE, labels |-> {}]]
    /\ status = ZeroStatus
    /\ obj = ZeroStatus
    /\ pc = "Send"
    /\ result = ZeroResult
    /\ clean = ZeroClean
    /\ send = ZeroSend
    /\ ctxDone = FALSE
    /\ ret = ZeroRet
    /\ events = <<>>
    /\ gathered = <<>>
    /\ log = <<>>
    /\ passes = <<>>

NextSend == SendEnter \/ SendAttempt \/ SendWait \/ Cancel

SpecSend == InitSend /\ [][NextSend]_vars

----------------------------------------------------------------------------
(* The operator: Reconcile called again and again on one KorpScan *)

\* the cluster in which exactly the objects of `existing` exist, all of them orphans
ClusterOf(existing, labelled) ==
    [o \in Objects |->
        [ exists |-> o \in existing, orphan |-> o \in existing,
          labels |-> IF o \in existing /\ o \in labelled THEN {"keep"} ELSE {} ]]

ObjCM == [kind |-> "ConfigMap", ns |-> "a", name |-> "cm"]

ObjRole == [kind |-> "Role", ns |-> "a", name |-> "ro"]

\* policies that differ in cadence and history retention; they report events
HistoryPolicies ==
    { [ZeroSpec EXCEPT !.IntervalMinutes = i, !.Reporting.HistoryLimit = n,
                       !.Reporting.CreateEvents = TRUE] :
        i \in {0, 2 * 24 * 60}, n \in {0, 2} }

\* policies with a cleanup section
CleanupPolicies ==
    { [ZeroSpec EXCEPT !.Reporting.HistoryLimit = 1,
                       !.Cleanup = << [ Enabled |-> en, DryRun |-> dr,
                                        ResourceTypes |-> <<>>, MinAgeDays |-> 1,
                                        PreservationLabels |-> <<"keep">> ] >>] :
        en \in BOOLEAN, dr \in {<<>>, <<FALSE>>} }

\* policies with a webhook
WebhookPolicies ==
    { [ZeroSpec EXCEPT !.Reporting.HistoryLimit = 1,
                       !.Reporting.Webhook =
                           << [URL |-> "http://hook", RetryPolicy |-> rp] >>] :
        rp \in { <<>>, << [MaxRetries |-> 1, InitialDelaySeconds |-> 1] >> } }

\* policies whose cleanup was taken out or switched off after an earlier pass
\* had stored a cleanup outcome
RetiredPolicies ==
    { [ZeroSpec EXCEPT !.Reporting.HistoryLimit = 1, !.Cleanup = c] :
        c \in { <<>>, << [ Enabled |-> FALSE, DryRun |-> <<FALSE>>,
                           ResourceTypes |-> <<>>, MinAgeDays |-> 1,
                           PreservationLabels |-> <<>> ] >> } }

\* the status that earlier pass left, long ago: nothing found, a dry-run stored
RetiredStatus ==
    [ ZeroStatus EXCEPT
        !.LastScanTime = <<AgeCap>>,
        !.Phase = "Completed",
        !.History = << [ScanTime |-> AgeCap, OrphanCount |-> 0, Duration |-> 0] >>,
        !.Conditions = << [Type |-> "Ready", Status |-> "True", Reason |-> "ScanCompleted",
                           Message |-> <<"Found orphaned resources", 0>>] >>,
        !.CleanupStatus =
            << [ LastCleanupTime |-> AgeCap, LastCleanupResult |-> "DryRun",
                 Summary |-> [ZeroCleanupSummary EXCEPT !.DryRun = TRUE],
                 DeletedResources |-> <<>>, FailedDeletions |-> <<>> ] >> ]

Init ==
    /\ \/ /\ spec \in HistoryPolicies
          /\ cluster = ClusterOf({ObjCM}, {})
          /\ status = ZeroStatus /\ passes = <<>>
       \/ /\ spec \in RetiredPolicies
          /\ cluster = ClusterOf({ObjCM}, {})
          /\ status = RetiredStatus /\ passes = RetiredStatus.History
       \/ /\ spec \in CleanupPolicies
          /\ \E labelled \in SUBSET {ObjCM} : cluster = ClusterOf({ObjCM, ObjRole}, labelled)
          /\ status = ZeroStatus /\ passes = <<>>
       \/ /\ spec \in WebhookPolicies
          /\ cluster = IF spec.Reporting.Webhook[1].RetryPolicy = <<>>
                       THEN ClusterOf({}, {}) ELSE ClusterOf({ObjCM}, {})
          /\ status = ZeroStatus /\ passes = <<>>
    /\ obj = ZeroStatus
    /\ pc = "Idle"
    /\ result = ZeroResult
    /\ clean = ZeroClean
    /\ send = ZeroSend
    /\ ctxDone = FALSE
    /\ ret = ZeroRet
    /\ events = <<>>
    /\ gathered = <<>>
    /\ log = <<>>

Next ==
    \/ ReconcileNotDue
    \/ ReconcileStart
    \/ ReconcileScanFailed
    \/ ReconcileScanned
    \/ CleanEnter
    \/ CleanStep
    \/ ReconcileCleaned
    \/ SendEnter
    \/ SendAttempt
    \/ SendWait
    \/ Cancel
    \/ ReconcileNotified
    \/ ReconcileReturn
    \/ Tick
    \/ OtherActorDeletes
    \/ OtherActorChanges

Spec == Init /\ [][Next]_vars

----------------------------------------------------------------------------
(* One call of Reconcile with every stage: events, cleanup and webhook *)

\* policies that differ in the stages a pass has after the scan
StagePolicies ==
    { [ZeroSpec EXCEPT !.Reporting.HistoryLimit = 1,
                       !.Reporting.CreateEvents = ev,
                       !.Cleanup = c,
                       !.Reporting.Webhook = w] :
        ev \in BOOLEAN,
        c \in { <<>> } \cup
              { << [ Enabled |-> en, DryRun |-> dr, ResourceTypes |-> <<>>,
                     MinAgeDays |-> 1, PreservationLabels |-> <<>> ] >> :
                  en \in BOOLEAN, dr \in {<<>>, <<FALSE>>} },
        w \in { <<>>,
                << [ URL |-> "http://hook",
                     RetryPolicy |-> << [MaxRetries |-> 1, InitialDelaySeconds |-> 1] >> ] >> } }

InitPass ==
    /\ spec \in StagePolicies
    /\ \E existing \in {{}, {ObjCM}, {ObjCM, ObjRole}} : cluster = ClusterOf(existing, {})
    /\ status = ZeroStatus
    /\ obj = ZeroStatus
    /\ pc = "Idle"
    /\ result = ZeroResult
    /\ clean = ZeroClean
    /\ send = ZeroSend
    /\ ctxDone = FALSE
    /\ ret = ZeroRet
    /\ events = <<>>
    /\ gathered = <<>>
    /\ log = <<>>
    /\ passes = <<>>

NextPass ==
    \/ ReconcileNotDue
    \/ ReconcileStart
    \/ ReconcileScanFailed
    \/ ReconcileScanned
    \/ CleanEnter
    \/ CleanStep
    \/ ReconcileCleaned
    \/ SendEnter
    \/ SendAttempt
    \/ SendWait
    \/ Cancel
    \/ ReconcileNotified
    \/ ReconcileReturn

SpecPass == InitPass /\ [][NextPass]_vars

----------------------------------------------------------------------------
(* One KorpScan with any scan policy over any cluster: what a pass stores *)

\* policies that differ in what is scanned
ScanPolicies ==
    { [ZeroSpec EXCEPT !.TargetNamespace = t, !.ResourceTypes = rts,
                       !.Filters.ExcludeNamespaces = f.ns,
                       !.Filters.ExcludeNamePatterns = f.pats,
                       !.Filters.ExcludeLabels = f.labels,
                       !.Reporting.CreateEvents = ev,
                       !.Reporting.HistoryLimit = 1] :
        t \in {"a", "*"}, ev \in BOOLEAN,
        rts \in {<<>>, <<"configmaps", "configmaps">>, <<"clusterroles", "roles", "pods">>,
                 <<"clusterroles", "clusterroles">>},
        f \in { [ns |-> <<>>, pats |-> <<>>, labels |-> {}],
                [ns |-> <<"b">>, pats |-> <<"(", "ro">>, labels |-> {}],
                [ns |-> <<"b">>, pats |-> <<>>, labels |-> {"keep"}],
                [ns |-> <<"a", "b">>, pats |-> <<>>, labels |-> {}] } }

\* every object exists or not, and is an orphan or not; the ConfigMap of
\* namespace a carries the label keep or no label
ScanClusters ==
    { cl \in [Objects -> [exists : BOOLEAN, orphan : BOOLEAN, labels : {{}, {"keep"}}]] :
        \A o \in Objects :
            /\ ~cl[o].exists => ~cl[o].orphan
            /\ cl[o].labels # {} => cl[o].orphan /\ o = ObjCM }

InitScan ==
    /\ spec \in ScanPolicies
    /\ cluster \in ScanClusters
    /\ status = ZeroStatus
    /\ obj = ZeroStatus
    /\ pc = "Idle"
    /\ result = ZeroResult
    /\ clean = ZeroClean
    /\ send = ZeroSend
    /\ ctxDone = FALSE
    /\ ret = ZeroRet
    /\ events = <<>>
    /\ gathered = <<>>
    /\ log = <<>>
    /\ passes = <<>>

NextScan ==
    \/ ReconcileNotDue
    \/ ReconcileStart
    \/ ReconcileScanFailed
    \/ ReconcileScanned
    \/ ReconcileReturn

SpecScan == InitScan /\ [][NextScan]_vars

----------------------------------------------------------------------------
(* Properties of WebhookNotifier.Send, checked under SpecSend *)

Succeeded(code) == 200 <= code /\ code < 300

\* maxRetries as the claims read it: RetryPolicy.MaxRetries, 3 with no retry policy
RetriesAsked ==
    IF WebhookOf.RetryPolicy = <<>> THEN 3 ELSE WebhookOf.RetryPolicy[1].MaxRetries

\* C8: with maxRetries = r >= 0, an endpoint that fails every attempt and no
\* cancellation, Send makes exactly r + 1 attempts and only then returns an error,
\* which wraps the last attempt's error
C8_FailingEndpointAttempts ==
    ( /\ pc \in {"SendOnce", "SendWait", "SendDone"}
      /\ ~ctxDone
      /\ \A i \in DOMAIN send.attempts : ~Succeeded(send.attempts[i]) ) =>
        /\ Len(send.attempts) <= RetriesAsked + 1
        /\ (pc = "SendDone") = (Len(send.attempts) = RetriesAsked + 1)
        /\ pc = "SendDone" =>
             /\ send.err # NoErr
             /\ send.err[3] = sendOnce(send.attempts[Len(send.attempts)], FALSE)

\* Send has returned the error of the third of three failed attempts under maxRetries 2
C8_Witness ==
    /\ pc = "SendDone" /\ ~ctxDone
    /\ WebhookOf.RetryPolicy # <<>> /\ WebhookOf.RetryPolicy[1].MaxRetries = 2
    /\ send.attempts = <<500, 500, 300>>
    /\ send.err = <<"webhook failed after attempts", 3,
                    <<"webhook returned non-success status", 300>> >>

\* C10: when Send leaves a backoff wait with the cancellation signal fired, it returns
\* a cancellation error, the wait is not completed and no further attempt is made
C10_CancelAbortsBackoff ==
    [][ (pc = "SendWait" /\ ctxDone /\ pc' # "SendWait") =>
            /\ pc' = "SendDone"
            /\ send'.err = <<"context cancelled during retry backoff">>
            /\ send'.attempts = send.attempts
            /\ send'.waits = send.waits ]_vars

\* ctx was cancelled during the wait before the second attempt, and Send returned the
\* cancellation error after one attempt and no completed wait
C10_Witness ==
    /\ pc = "SendDone"
    /\ send.cancelledAt = "SendWait"
    /\ send.err = <<"context cancelled during retry backoff">>
    /\ Len(send.attempts) = 1
    /\ send.waits = <<>>

\* initialDelay as the claims read it: RetryPolicy.InitialDelaySeconds, 1 second
\* with no retry policy
DelayAsked ==
    IF WebhookOf.RetryPolicy = <<>> THEN 1 ELSE WebhookOf.RetryPolicy[1].InitialDelaySeconds

\* the retry policy is absent or one the CRD admits (InitialDelaySeconds >= 1)
AdmittedRetryPolicy ==
    WebhookOf.RetryPolicy = <<>> \/ WebhookOf.RetryPolicy[1].InitialDelaySeconds >= 1

\* C11: attempt 0 is made with no wait; the wait before attempt k >= 1 is
\* initialDelay * 2^(k-1) seconds, so a delivery that fails for good has waited
\* initialDelay * (2^maxRetries - 1) seconds; no retry policy means 3 and 1 second
C11_BackoffDelays ==
    (pc \in {"SendOnce", "SendWait", "SendDone"} /\ AdmittedRetryPolicy) =>
        /\ \A k \in DOMAIN send.waits : send.waits[k] = DelayAsked * 2 ^ (k - 1)
        /\ pc = "SendOnce" => Len(send.waits) = Len(send.attempts)
        /\ Len(send.waits) <= Len(send.attempts)
        /\ pc = "SendWait" => Len(send.waits) = Len(send.attempts) - 1
        /\ ( /\ pc = "SendDone"
             /\ send.err # NoErr
             /\ send.err # <<"context cancelled during retry backoff">> ) =>
               SumSeq(send.waits) = DelayAsked * (2 ^ RetriesAsked - 1)

\* with no retry policy four attempts have failed after waits of 1, 2 and 4 seconds
C11_Witness ==
    /\ pc = "SendDone"
    /\ WebhookOf.RetryPolicy = <<>>
    /\ Len(send.attempts) = 4
    /\ send.err # NoErr
    /\ send.waits = <<1, 2, 4>>
    /\ SumSeq(send.waits) = 7

----------------------------------------------------------------------------
(* Properties of a pass, checked under SpecScan and Spec *)

\* the sum of the per-kind counters of a summary
PerKindSum(s) == SumSeq([i \in 1..Len(SummaryCounters) |-> s[SummaryCounters[i]]])

\* the findings of a list that the counter of a scan table row stands for
FindingsOf(findings, row) == { i \in DOMAIN findings : findings[i].ResourceType = row.kind }

TotalsAgree(st) ==
    /\ st.Summary.OrphanCount = PerKindSum(st.Summary)
    /\ st.Summary.OrphanCount = Len(st.Findings)
    /\ st.Summary.TotalResources = Len(st.Findings)
    /\ \A k \in DOMAIN ScanTable :
         st.Summary[ScanTable[k].counter] = Cardinality(FindingsOf(st.Findings, ScanTable[k]))

HistoryLimitAsked ==
    IF spec.Reporting.HistoryLimit = 0 THEN 5 ELSE spec.Reporting.HistoryLimit

\* C7: History is the most-recent-first list of the last min(k, N) completed passes,
\* N = HistoryLimit or 5 when that is zero; passes that fail or are not due, and
\* everything else, leave it unchanged
C7_HistoryIsLastPasses ==
    /\ status.History = Take(passes, HistoryLimitAsked)
    /\ (pc = "Return" /\ ret.err = NoErr /\ obj.Phase = "Completed") =>
           obj.History = status.History

\* with the default limit, a sixth pass has completed: five entries are kept, the
\* latest first, and the oldest pass is gone
C7_Witness ==
    /\ spec.Reporting.HistoryLimit = 0
    /\ pc = "Return" /\ ret.err = NoErr /\ obj.Phase = "Completed"
    /\ Len(passes) = 6
    /\ Len(status.History) = 5
    /\ status.History[1] = passes[1]
    /\ status.History[1].ScanTime = 0
    /\ status.History[1].OrphanCount # status.History[2].OrphanCount
    /\ status.History[2].ScanTime < status.History[5].ScanTime

\* C9: Send returns nil at the first attempt answered with a status in [200,300)
\* and makes no attempt after it; it returns nil whenever one of the maxRetries + 1
\* attempts it may make is so answered; the pass then records FailureCount 0 and
\* a LastSuccess time
C9_SuccessStopsAndIsRecorded ==
    /\ pc \in {"SendOnce", "SendWait"} =>
         \A i \in DOMAIN send.attempts : ~Succeeded(send.attempts[i])
    /\ pc \in {"SendDone", "Return"} /\ send.attempts # <<>> =>
         /\ Len(send.attempts) <= RetriesAsked + 1
         /\ \A i \in 1..(Len(send.attempts) - 1) : ~Succeeded(send.attempts[i])
         /\ (send.err = NoErr) = Succeeded(send.attempts[Len(send.attempts)])
    /\ pc = "Return" /\ send.attempts # <<>> /\ send.err = NoErr =>
         /\ obj.WebhookStatus # <<>>
         /\ obj.WebhookStatus[1].FailureCount = 0
         /\ obj.WebhookStatus[1].LastSuccess = <<0>>

\* with no retry policy (maxRetries 3) the endpoint answered 500, 500, 200: Send
\* returned nil and the pass stored FailureCount 0 and LastSuccess now
C9_Witness ==
    /\ pc = "Return"
    /\ spec.Reporting.Webhook # <<>> /\ WebhookOf.RetryPolicy = <<>>
    /\ send.attempts = <<500, 500, 200>>
    /\ send.err = NoErr
    /\ status = obj
    /\ status.WebhookStatus[1].FailureCount = 0
    /\ status.WebhookStatus[1].LastSuccess = <<0>>

\* the interval the policy asks for, in minutes
IntervalAsked == IF spec.IntervalMinutes = 0 THEN 60 ELSE spec.IntervalMinutes

\* the current call of Reconcile has run Send and Send returned an error
WebhookFailedInPass == pc = "Return" /\ send.attempts # <<>> /\ send.err # NoErr

\* the events of the current call with the given reason
EventsWith(reason) == { i \in DOMAIN events : events[i].reason = reason }

\* C12: when the webhook delivery fails (attempts exhausted or the wait
\* cancelled), the pass returns no error and asks to be called again after the
\* full interval; the stored phase is Completed and the stored Summary, Findings
\* and History are those of the scan of this pass; the failure shows only in
\* WebhookStatus and in one WebhookFailed warning event
C12_WebhookFailureIsContained ==
    WebhookFailedInPass =>
        /\ ret.err = NoErr
        /\ ret.RequeueAfter = IntervalAsked
        /\ status.Phase = "Completed" /\ obj.Phase = "Completed"
        /\ status.Findings = result.Details /\ obj.Findings = result.Details
        /\ \A c \in Range(SummaryCounters) :
             status.Summary[c] = result.Summary[c] /\ obj.Summary[c] = result.Summary[c]
        /\ status.Summary.OrphanCount = Len(result.Details)
        /\ status.History = obj.History
        /\ status.History[1] = [ScanTime |-> 0, OrphanCount |-> Len(result.Details),
                                Duration |-> 0]
        /\ status.LastScanTime = <<0>>
        /\ \E c \in Range(status.Conditions) :
             c.Type = "Ready" /\ c.Status = "True" /\ c.Reason = "ScanCompleted"
        /\ obj.WebhookStatus # <<>>
        /\ obj.WebhookStatus[1].LastError = send.err
        /\ obj.WebhookStatus[1].LastFailure = <<0>>
        /\ obj.WebhookStatus[1].FailureCount >= 1
        /\ [obj EXCEPT !.WebhookStatus = status.WebhookStatus] = status
        /\ Cardinality(EventsWith("WebhookFailed")) = 1
        /\ \A i \in EventsWith("WebhookFailed") :
             events[i].type = "Warning" /\ events[i].message = send.err
        /\ EventsWith("ScanFailed") = {} /\ EventsWith("CleanupFailed") = {}

\* both attempts the retry policy allows were answered 500: the pass returned
\* nil after storing the scan of one orphan and the failed delivery
C12_Witness ==
    /\ WebhookFailedInPass
    /\ send.attempts = <<500, 500>>
    /\ status.Findings # <<>>
    /\ status.WebhookStatus # <<>> /\ status.WebhookStatus[1].FailureCount = 1
    /\ ret = [RequeueAfter |-> 60, err |-> NoErr]

\* a call of Reconcile begins while LastScanTime is set and less than the
\* interval has passed since
StartsBeforeDue ==
    /\ pc = "Idle" /\ pc' # "Idle"
    /\ status.LastScanTime # <<>>
    /\ status.LastScanTime[1] < IntervalAsked

\* C13: a call made before LastScanTime + interval changes nothing: the stored
\* status (phase, summary, findings, history, conditions, webhook and cleanup
\* status) and the cluster stay as they are, no list, delete, lookup, webhook
\* attempt or event is made, and the call returns at once with no error and the
\* delay LastScanTime + interval - now
C13_NotDueChangesNothing ==
    [][ StartsBeforeDue =>
          /\ pc' = "Return"
          /\ status' = status
          /\ obj' = status
          /\ cluster' = cluster
          /\ result' = ZeroResult /\ clean' = ZeroClean /\ send' = ZeroSend
          /\ log' = <<>> /\ events' = <<>>
          /\ passes' = passes
          /\ ret'.err = NoErr
          /\ ret'.RequeueAfter = IntervalAsked - status.LastScanTime[1]
          /\ ret'.RequeueAfter > 0 ]_vars

\* a day after a scan stored under a two-day interval the call has returned
\* with a delay of one day and the status it read
C13_Witness ==
    /\ pc = "Return"
    /\ spec.IntervalMinutes = 2 * 24 * 60
    /\ status.LastScanTime = <<24 * 60>>
    /\ status.Phase = "Completed" /\ status.Findings # <<>>
    /\ obj = status
    /\ ret = [RequeueAfter |-> 24 * 60, err |-> NoErr]
    /\ result = ZeroResult /\ events = <<>>

\* the current call of Reconcile is returning the error of its scan
ScanFailedInPass == pc = "Return" /\ ret.err = <<"list failed">>

\* the Ready conditions of a status
ReadyOf(st) == { i \in DOMAIN st.Conditions : st.Conditions[i].Type = "Ready" }

\* C14: when the scan returns an error the pass sets phase Failed and the one
\* Ready condition to False with reason ScanFailed and the error text as
\* message, returns that error, and asks to be called again after the full
\* interval; the status is stored so unless the store itself fails
C14_ScanFailureIsReported ==
    ScanFailedInPass =>
        /\ obj.Phase = "Failed"
        /\ Cardinality(ReadyOf(obj)) = 1
        /\ \A i \in ReadyOf(obj) :
             /\ obj.Conditions[i].Status = "False"
             /\ obj.Conditions[i].Reason = "ScanFailed"
             /\ obj.Conditions[i].Message = ret.err
        /\ ret.RequeueAfter = IntervalAsked
        /\ status = obj \/ (status.Phase = "Running" /\ status = [obj EXCEPT
                                !.Phase = "Running", !.Conditions = status.Conditions])

\* a pass that had completed before fails at its next scan: the Ready condition
\* of the completed pass has been replaced and the stored phase is Failed
C14_Witness ==
    /\ ScanFailedInPass
    /\ status = obj
    /\ status.Phase = "Failed"
    /\ status.History # <<>>
    /\ Len(status.Conditions) = 1
    /\ status.Conditions[1].Reason = "ScanFailed"
    /\ ret.RequeueAfter = 60

\* C15: when a scan fails part-way nothing of it is published: the stored and
\* the in-memory Summary, Findings, History and LastScanTime are those of the
\* last pass that completed (empty when none did), none of the findings the
\* failed scan had gathered is among them, and the pass has emitted no event,
\* made no cleanup step and no webhook attempt
C15_FailedScanPublishesNothing ==
    ScanFailedInPass =>
        /\ IF passes = <<>>
           THEN /\ status.LastScanTime = <<>> /\ status.History = <<>>
                /\ status.Findings = <<>> /\ status.Summary = ZeroSummary
           ELSE /\ status.LastScanTime = <<passes[1].ScanTime>>
                /\ status.History # <<>> /\ status.History[1] = passes[1]
                /\ status.Summary.OrphanCount = passes[1].OrphanCount
                /\ Len(status.Findings) = passes[1].OrphanCount
                /\ \A i \in DOMAIN status.Findings :
                     status.Findings[i].DetectedAt = passes[1].ScanTime
        /\ obj.LastScanTime = status.LastScanTime /\ obj.History = status.History
        /\ obj.Findings = status.Findings /\ obj.Summary = status.Summary
        /\ \A i \in DOMAIN gathered :
             gathered[i] \notin Range(status.Findings) \cup Range(obj.Findings)
        /\ events = <<>>
        /\ log = <<>> /\ clean = ZeroClean
        /\ send = ZeroSend
        /\ result = ZeroResult

\* a scan that had already found the orphan ConfigMap fails at a later call,
\* after an earlier pass had completed: the stored findings are the earlier ones
C15_Witness ==
    /\ ScanFailedInPass
    /\ spec.Reporting.CreateEvents
    /\ Len(gathered) = 1 /\ gathered[1].ResourceType = "ConfigMap"
    /\ gathered[1].DetectedAt = 0
    /\ passes # <<>>
    /\ Len(status.Findings) = 1 /\ status.Findings[1].DetectedAt > 0
    /\ status.Phase = "Failed"

----------------------------------------------------------------------------
(* pkg/k8s: detection functions, and the scanX functions that call them;     *)
(* here `cluster` holds the objects of one namespace with the answers the    *)
(* API server gives to the calls made, `log` the calls made and `passes` the *)
(* outcome of each run.  In this part a timestamp is a point in time, in     *)
(* minutes, and the field now of `cluster` is metav1.Now().                  *)

\* the subsets drawn for an Endpoints object: none, one without addresses, one
\* with a ready address, one with a not-ready address, and an empty one
\* followed by one with a ready address
SubsetLists ==
    { <<>>,
      << [Addresses |-> 0, NotReadyAddresses |-> 0] >>,
      << [Addresses |-> 1, NotReadyAddresses |-> 0] >>,
      << [Addresses |-> 0, NotReadyAddresses |-> 1] >>,
      << [Addresses |-> 0, NotReadyAddresses |-> 0],
         [Addresses |-> 1, NotReadyAddresses |-> 0] >> }

\* the Endpoints object of a Service (present or not, with its subsets) and the
\* answer to a Get of it: the object, NotFound when there is none, or an error
\* of the API server
EndpointsAnswers ==
    { [answer |-> "NotFound", present |-> FALSE, subsets |-> <<>>],
      [answer |-> "ServerError", present |-> FALSE, subsets |-> <<>>] }
    \cup [answer : {"found", "ServerError"}, present : {TRUE}, subsets : SubsetLists]

\* the answers to a Get of a ServiceAccount: the object, NotFound when there is
\* none, or an error of the API server for an object that exists
GetAnswers == {"found", "NotFound", "ServerError"}

\* totalAddresses of an Endpoints object
totalAddresses(subsets) ==
    SumSeq([k \in DOMAIN subsets |->
              subsets[k].Addresses + subsets[k].NotReadyAddresses])

\* ServicesWithoutEndpoints: the listed Services whose Endpoints Get returned an
\* error, or an object without addresses
ServicesWithoutEndpoints(api) ==
    IF api.listErr = "services"
    THEN [names |-> <<>>, err |-> ScanErr]
    ELSE [names |-> SelectSeq(api.services, LAMBDA svc :
                        \/ api.endpoints[svc].answer # "found"
                        \/ totalAddresses(api.endpoints[svc].subsets) = 0),
          err |-> NoErr]

\* the calls ServicesWithoutEndpoints makes, each with the object it is made
\* for and its answer
ServiceCalls(api) ==
    IF api.listErr = "services"
    THEN << [call |-> "ListServices", for |-> "", answer |-> "ServerError"] >>
    ELSE << [call |-> "ListServices", for |-> "", answer |-> "found"] >>
         \o [i \in DOMAIN api.services |->
               [call |-> "GetEndpoints", for |-> api.services[i],
                answer |-> api.endpoints[api.services[i]].answer]]

\* the namespace a subject is looked up in
subjectNs(subject, ns) == IF subject.Namespace = "" THEN ns ELSE subject.Namespace

\* the referenced Role or ClusterRole is not among the listed ones
RoleMissing(api, rb) ==
    \/ rb.RoleRef.Kind = "Role" /\ rb.RoleRef.Name \notin api.roles
    \/ rb.RoleRef.Kind = "ClusterRole" /\ rb.RoleRef.Name \notin api.clusterRoles

\* the subjects of rb that are ServiceAccounts of the scanned namespace
LookedUp(rb, ns) ==
    SelectSeq(rb.Subjects, LAMBDA subject :
        subject.Kind = "ServiceAccount" /\ subjectNs(subject, ns) = ns)

\* isOrphan at the end of the loop body of OrphanRoleBindings
isOrphanRoleBinding(api, rb, ns) ==
    \/ RoleMissing(api, rb)
    \/ \E k \in DOMAIN LookedUp(rb, ns) :
         api.serviceAccounts[LookedUp(rb, ns)[k].Name] # "found"

\* OrphanRoleBindings: the listed RoleBindings whose role is missing or one of
\* whose ServiceAccount Gets returned an error
OrphanRoleBindings(api, ns) ==
    IF api.listErr \in {"rolebindings", "roles", "clusterroles"}
    THEN [names |-> <<>>, err |-> ScanErr]
    ELSE LET orphans == SelectSeq(api.roleBindings,
                            LAMBDA rb : isOrphanRoleBinding(api, rb, ns))
         IN  [names |-> [i \in DOMAIN orphans |-> orphans[i].Name], err |-> NoErr]

\* the ServiceAccount Gets made for rb: none when its role is missing, else one
\* per looked-up subject up to the first that returns an error
GetsFor(api, rb, ns) ==
    LET lookedUp == LookedUp(rb, ns)
        bad == { k \in DOMAIN lookedUp : api.serviceAccounts[lookedUp[k].Name] # "found" }
        last == IF bad = {} THEN Len(lookedUp)
                ELSE CHOOSE k \in bad : \A other \in bad : k <= other
    IN  IF RoleMissing(api, rb) THEN <<>>
        ELSE [k \in 1..last |->
                [call |-> "GetServiceAccount", for |-> rb.Name,
                 answer |-> api.serviceAccounts[lookedUp[k].Name]]]

\* the calls OrphanRoleBindings makes
RoleBindingCalls(api, ns) ==
    LET lists == <<"rolebindings", "roles", "clusterroles">>
        failing == IF \E k \in 1..3 : lists[k] = api.listErr
                   THEN CHOOSE k \in 1..3 : lists[k] = api.listErr ELSE 4
    IN  [k \in 1..Min(failing, 3) |->
            [call |-> lists[k], for |-> "",
             answer |-> IF k = failing THEN "ServerError" ELSE "found"]]
        \o (IF failing <= 3 THEN <<>>
            ELSE Concat([i \in DOMAIN api.roleBindings |->
                            GetsFor(api, api.roleBindings[i], ns)]))

\* the name of a binding with its length and its first seven bytes
NameTable ==
    ("crb" :> [len |-> 3, first7 |-> "crb"])
    @@ ("system:" :> [len |-> 7, first7 |-> "system:"])
    @@ ("system:x" :> [len |-> 8, first7 |-> "system:"])

\* len(crb.Name) > 7 && crb.Name[:7] == "system:"
isSystemBinding(name) ==
    IF name \in DOMAIN NameTable
    THEN NameTable[name].len > 7 /\ NameTable[name].first7 = "system:"
    ELSE FALSE

\* isOrphan at the end of the loop body of OrphanClusterRoleBindings
isOrphanClusterRoleBinding(api, crb) ==
    \/ crb.RoleRef.Name \notin api.clusterRoles
    \/ \E k \in DOMAIN crb.Subjects :
         /\ crb.Subjects[k].Kind = "ServiceAccount"
         /\ crb.Subjects[k].Namespace # ""
         /\ api.serviceAccounts[crb.Subjects[k].Name] # "found"

\* OrphanClusterRoleBindings: the listed ClusterRoleBindings, those named
\* system:... left out, whose ClusterRole is missing or one of whose
\* ServiceAccount Gets returned an error
OrphanClusterRoleBindings(api) ==
    IF api.listErr \in {"clusterrolebindings", "clusterroles"}
    THEN [names |-> <<>>, err |-> ScanErr]
    ELSE LET orphans == SelectSeq(api.clusterRoleBindings, LAMBDA crb :
                            ~isSystemBinding(crb.Name)
                            /\ isOrphanClusterRoleBinding(api, crb))
         IN  [names |-> [i \in DOMAIN orphans |-> orphans[i].Name], err |-> NoErr]

OrphanJobsFrom168Hours(api) ==
    IF api.listErr = "jobs"
    THEN [names |-> <<>>, err |-> ScanErr]
    ELSE LET orphans == SelectSeq(api.jobs, LAMBDA job :
                            /\ job.OwnerReferences = 0
                            /\ (job.Succeeded > 0 \/ job.Failed > 0)
                            /\ job.CompletionTime # <<>>
                            /\ api.now - job.CompletionTime[1] >= 168 * Hour)
         IN  [names |-> [i \in DOMAIN orphans |-> orphans[i].Name], err |-> NoErr]

\* OrphanJobs: the listed Jobs without owner that succeeded or failed and
\* completed more than 168 hours before now
OrphanJobs(api) ==
    IF api.listErr = "jobs"
    THEN [names |-> <<>>, err |-> ScanErr]
    ELSE LET orphans == SelectSeq(api.jobs, LAMBDA job :
                            /\ job.OwnerReferences = 0
                            /\ (job.Succeeded > 0 \/ job.Failed > 0)
                            /\ job.CompletionTime # <<>>
                            /\ api.now - job.CompletionTime[1] > 168 * Hour)
         IN  [names |-> [i \in DOMAIN orphans |-> orphans[i].Name], err |-> NoErr]

\* OrphanCronJobs: the listed CronJobs that are suspended and never succeeded,
\* or succeeded last more than 720 hours before now
OrphanCronJobs(api) ==
    IF api.listErr = "cronjobs"
    THEN [names |-> <<>>, err |-> ScanErr]
    ELSE LET orphans == SelectSeq(api.cronJobs, LAMBDA cj :
                            /\ cj.Suspend # <<>> /\ cj.Suspend[1]
                            /\ \/ cj.LastSuccessfulTime = <<>>
                               \/ api.now - cj.LastSuccessfulTime[1] > 720 * Hour)
         IN  [names |-> [i \in DOMAIN orphans |-> orphans[i].Name], err |-> NoErr]

\* allContainers of a pod: init, regular, then Env and EnvFrom of the ephemeral
allContainers(pod) ==
    pod.InitContainers \o pod.Containers
    \o [k \in DOMAIN pod.EphemeralContainers |->
          [ Env |-> pod.EphemeralContainers[k].Env,
            EnvFrom |-> pod.EphemeralContainers[k].EnvFrom ]]

isConfigMapUsedByPodSkipsEphemeral(pod, configMapName) ==
    \/ \E v \in DOMAIN pod.Volumes :
         \/ pod.Volumes[v].ConfigMap = <<configMapName>>
         \/ /\ pod.Volumes[v].Projected # <<>>
            /\ \E src \in DOMAIN pod.Volumes[v].Projected[1] :
                 pod.Volumes[v].Projected[1][src].ConfigMap = <<configMapName>>
    \/ \E c \in DOMAIN (pod.InitContainers \o pod.Containers) :
         LET container == (pod.InitContainers \o pod.Containers)[c]
         IN  \/ \E k \in DOMAIN container.EnvFrom :
                  container.EnvFrom[k].ConfigMapRef = <<configMapName>>
             \/ \E k \in DOMAIN container.Env :
                  /\ container.Env[k].ValueFrom # <<>>
                  /\ container.Env[k].ValueFrom[1].ConfigMapKeyRef = <<configMapName>>

\* isConfigMapUsedByPod: a volume, a projected source, an envFrom or an env of
\* a container of the pod names the ConfigMap
isConfigMapUsedByPod(pod, configMapName) ==
    \/ \E v \in DOMAIN pod.Volumes :
         \/ pod.Volumes[v].ConfigMap = <<configMapName>>
         \/ /\ pod.Volumes[v].Projected # <<>>
            /\ \E src \in DOMAIN pod.Volumes[v].Projected[1] :
                 pod.Volumes[v].Projected[1][src].ConfigMap = <<configMapName>>
    \/ \E c \in DOMAIN allContainers(pod) :
         LET container == allContainers(pod)[c]
         IN  \/ \E k \in DOMAIN container.EnvFrom :
                  container.EnvFrom[k].ConfigMapRef = <<configMapName>>
             \/ \E k \in DOMAIN container.Env :
                  /\ container.Env[k].ValueFrom # <<>>
                  /\ container.Env[k].ValueFrom[1].ConfigMapKeyRef = <<configMapName>>

\* isSecretUsedByPod: a volume, a projected source, an image pull secret, an
\* envFrom or an env of a container of the pod names the Secret
isSecretUsedByPod(pod, secretName) ==
    \/ \E v \in DOMAIN pod.Volumes :
         \/ pod.Volumes[v].Secret = <<secretName>>
         \/ /\ pod.Volumes[v].Projected # <<>>
            /\ \E src \in DOMAIN pod.Volumes[v].Projected[1] :
                 pod.Volumes[v].Projected[1][src].Secret = <<secretName>>
    \/ \E k \in DOMAIN pod.ImagePullSecrets : pod.ImagePullSecrets[k] = secretName
    \/ \E c \in DOMAIN allContainers(pod) :
         LET container == allContainers(pod)[c]
         IN  \/ \E k \in DOMAIN container.EnvFrom :
                  container.EnvFrom[k].SecretRef = <<secretName>>
             \/ \E k \in DOMAIN container.Env :
                  /\ container.Env[k].ValueFrom # <<>>
                  /\ container.Env[k].ValueFrom[1].SecretKeyRef = <<secretName>>

\* isPVCUsedByPod: a volume of the pod names the claim
isPVCUsedByPod(pod, pvcName) ==
    \E v \in DOMAIN pod.Volumes : pod.Volumes[v].PersistentVolumeClaim = <<pvcName>>

\* the used-by-pod test of a kind
isUsedByPod(kind, pod, name) ==
    IF kind = "ConfigMap" THEN isConfigMapUsedByPod(pod, name)
    ELSE IF kind = "Secret" THEN isSecretUsedByPod(pod, name)
    ELSE isPVCUsedByPod(pod, name)

\* OrphanConfigMaps, OrphanSecrets, OrphanPVCs: the listed objects of the kind
\* without owner that no listed pod uses
OrphanUnused(api) ==
    IF api.listErr \in {"items", "pods"}
    THEN [names |-> <<>>, err |-> ScanErr]
    ELSE LET orphans == SelectSeq(api.items, LAMBDA item :
                            /\ item.OwnerReferences = 0
                            /\ ~\E p \in DOMAIN api.pods :
                                  isUsedByPod(api.kind, api.pods[p], item.Name))
         IN  [names |-> [i \in DOMAIN orphans |-> orphans[i].Name], err |-> NoErr]

\* the list calls a detection function makes, up to the first that fails
ListCalls(api, lists) ==
    LET failing == IF \E k \in DOMAIN lists : lists[k] = api.listErr
                   THEN CHOOSE k \in DOMAIN lists : lists[k] = api.listErr
                   ELSE Len(lists)
    IN  [k \in 1..failing |->
            [call |-> lists[k], for |-> "",
             answer |-> IF lists[k] = api.listErr THEN "ServerError" ELSE "found"]]

\* the ServiceAccount Gets made for crb: none when it is skipped or its
\* ClusterRole is missing, else one per subject with a namespace up to the
\* first that returns an error
GetsForClusterRoleBinding(api, crb) ==
    LET lookedUp == SelectSeq(crb.Subjects, LAMBDA subject :
                        subject.Kind = "ServiceAccount" /\ subject.Namespace # "")
        bad == { k \in DOMAIN lookedUp : api.serviceAccounts[lookedUp[k].Name] # "found" }
        last == IF bad = {} THEN Len(lookedUp)
                ELSE CHOOSE k \in bad : \A other \in bad : k <= other
    IN  IF isSystemBinding(crb.Name) \/ crb.RoleRef.Name \notin api.clusterRoles
        THEN <<>>
        ELSE [k \in 1..last |->
                [call |-> "GetServiceAccount", for |-> crb.Name,
                 answer |-> api.serviceAccounts[lookedUp[k].Name]]]

\* the calls OrphanClusterRoleBindings makes
ClusterRoleBindingCalls(api) ==
    ListCalls(api, <<"clusterrolebindings", "clusterroles">>)
    \o (IF api.listErr \in {"clusterrolebindings", "clusterroles"} THEN <<>>
        ELSE Concat([i \in DOMAIN api.clusterRoleBindings |->
                        GetsForClusterRoleBinding(api, api.clusterRoleBindings[i])]))

\* scanServices, scanRoleBindings, ...: the error of the detection function is
\* returned; else the names that pass the filters are counted and appended
scanDetected(detected, kind, counter, reason, ns, sp) ==
    IF detected.err # NoErr
    THEN [err |-> detected.err, result |-> ZeroResult]
    ELSE LET filtered == applyFilters(detected.names, sp.Filters)
         IN  [ err |-> NoErr,
               result |->
                 [ Summary |-> [ZeroSummary EXCEPT ![counter] = Len(filtered)],
                   Details |-> [i \in DOMAIN filtered |->
                                  newFinding(kind, ns, filtered[i], reason, 0)] ] ]

\* the (kind, namespace, name, reason) of the findings of a list
FoundIn(details) ==
    { << details[i].ResourceType, details[i].Namespace, details[i].Name,
         details[i].Reason >> : i \in DOMAIN details }

\* a run ends: Scan returns out, having made the calls; the run is recorded with
\* the cluster it read
Ran(out, calls) ==
    /\ result' = out.result
    /\ ret' = [RequeueAfter |-> 0, err |-> out.err]
    /\ log' = calls
    /\ passes' = Append(passes, [ world |-> cluster, err |-> out.err,
                                  found |-> FoundIn(out.result.Details) ])
    /\ pc' = "Detected"
    /\ UNCHANGED <<spec, cluster, status, obj, clean, send, ctxDone, events, gathered>>

\* the row of the scan table for a kind
RowOf(kind) == CHOOSE row \in Range(ScanTable) : row.kind = kind

\* Scan of the one type "services" in one namespace
ScanServices ==
    /\ pc = "Detect"
    /\ cluster.kind = "Service"
    /\ \E out \in { scanDetected(ServicesWithoutEndpoints(cluster), "Service",
                                 "ServicesWithoutEndpoints", "NoEndpoints",
                                 spec.TargetNamespace, spec) } :
         Ran(out, ServiceCalls(cluster))

\* Scan of the one type "rolebindings" in one namespace
ScanRoleBindings ==
    /\ pc = "Detect"
    /\ cluster.kind = "RoleBinding"
    /\ \E out \in { scanDetected(OrphanRoleBindings(cluster, spec.TargetNamespace),
                                 "RoleBinding", "OrphanedRoleBindings",
                                 "ReferencesNonExistentRoleOrSubject",
                                 spec.TargetNamespace, spec) } :
         Ran(out, RoleBindingCalls(cluster, spec.TargetNamespace))

\* Scan of the one type "clusterrolebindings"
ScanClusterRoleBindings ==
    /\ pc = "Detect"
    /\ cluster.kind = "ClusterRoleBinding"
    /\ \E out \in { scanDetected(OrphanClusterRoleBindings(cluster),
                                 "ClusterRoleBinding", "OrphanedClusterRoleBindings",
                                 RowOf("ClusterRoleBinding").reason, "", spec) } :
         Ran(out, ClusterRoleBindingCalls(cluster))

\* Scan of the one type "jobs" in one namespace
ScanJobs ==
    /\ pc = "Detect"
    /\ cluster.kind = "Job"
    /\ \E out \in { scanDetected(OrphanJobs(cluster), "Job", "OrphanedJobs",
                                 RowOf("Job").reason, spec.TargetNamespace, spec) } :
         Ran(out, ListCalls(cluster, <<"jobs">>))

\* Scan of the one type "cronjobs" in one namespace
ScanCronJobs ==
    /\ pc = "Detect"
    /\ cluster.kind = "CronJob"
    /\ \E out \in { scanDetected(OrphanCronJobs(cluster), "CronJob", "OrphanedCronJobs",
                                 RowOf("CronJob").reason, spec.TargetNamespace, spec) } :
         Ran(out, ListCalls(cluster, <<"cronjobs">>))

\* Scan of one of the types "configmaps", "secrets", "pvcs" in one namespace
ScanUnused ==
    /\ pc = "Detect"
    /\ cluster.kind \in {"ConfigMap", "Secret", "PersistentVolumeClaim"}
    /\ \E row \in { RowOf(cluster.kind) } :
       \E out \in { scanDetected(OrphanUnused(cluster), row.kind, row.counter,
                                 row.reason, spec.TargetNamespace, spec) } :
         Ran(out, ListCalls(cluster, <<"items", "pods">>))

\* the bound on the runs over one cluster
MaxRuns == 2

\* the run returns and another may start
Again ==
    /\ pc = "Detected"
    /\ Len(passes) < MaxRuns
    /\ pc' = "Detect"
    /\ result' = ZeroResult
    /\ ret' = ZeroRet
    /\ log' = <<>>
    /\ UNCHANGED <<spec, status, obj, clean, send, ctxDone, events, gathered, passes>>

\* the lapses of time drawn between two runs
Lapses == {Minute, Day}

\* time passes between two runs and nothing else changes
Elapse ==
    /\ Again
    /\ \E lapse \in Lapses : cluster' = [cluster EXCEPT !.now = @ + lapse]

\* between two runs an address of the Endpoints of a listed Service becomes ready
AddressAdded ==
    /\ Again
    /\ cluster.kind = "Service"
    /\ \E svc \in Range(cluster.services) :
         /\ cluster.endpoints[svc].answer = "found"
         /\ Len(cluster.endpoints[svc].subsets) < 2
         /\ cluster' = [cluster EXCEPT !.endpoints[svc].subsets =
                            Append(@, [Addresses |-> 1, NotReadyAddresses |-> 0])]

\* a container with its env and envFrom sources
Container(envFrom, env) == [EnvFrom |-> envFrom, Env |-> env]

\* a pod without volumes, image pull secrets and containers
EmptyPod ==
    [ Volumes |-> <<>>, ImagePullSecrets |-> <<>>, InitContainers |-> <<>>,
      Containers |-> <<>>, EphemeralContainers |-> <<>>, reference |-> <<>> ]

\* a volume without source
EmptyVolume ==
    [ConfigMap |-> <<>>, Secret |-> <<>>, PersistentVolumeClaim |-> <<>>, Projected |-> <<>>]

\* the ways a pod refers to an object: by what, and from which containers
Sites ==
    [via : {"volume", "projected", "imagePullSecret"}, in : {""}]
    \cup [via : {"envFrom", "env"}, in : {"init", "regular", "ephemeral"}]

\* the references drawn: a site, the kind and the name of the object referred to
References ==
    { r \in [site : Sites, kind : {"ConfigMap", "Secret", "PersistentVolumeClaim"},
             name : {"x", "y"}] :
        /\ r.kind = "PersistentVolumeClaim" => r.site.via = "volume"
        /\ r.site.via = "imagePullSecret" => r.kind = "Secret" }

\* the source of a volume, an env or an envFrom that names an object of a kind
SourceOf(fields, kind, name) ==
    [f \in fields |-> IF f = kind THEN <<name>> ELSE <<>>]

\* the pod that makes the one reference r; its field reference records r
PodWith(r) ==
    LET keyRef == [ConfigMap |-> "ConfigMapKeyRef", Secret |-> "SecretKeyRef"]
        fromRef == [ConfigMap |-> "ConfigMapRef", Secret |-> "SecretRef"]
        container ==
            IF r.site.via = "envFrom"
            THEN Container(<< SourceOf({"ConfigMapRef", "SecretRef"},
                                       fromRef[r.kind], r.name) >>, <<>>)
            ELSE Container(<<>>,
                    << [ValueFrom |-> <<>>],
                       [ValueFrom |-> << SourceOf({"ConfigMapKeyRef", "SecretKeyRef"},
                                                  keyRef[r.kind], r.name) >>] >>)
        pod == [EmptyPod EXCEPT !.reference = <<r>>]
    IN  IF r.site.via = "volume"
        THEN [pod EXCEPT !.Volumes =
                << [EmptyVolume EXCEPT ![r.kind] = <<r.name>>] >>]
        ELSE IF r.site.via = "projected"
        THEN [pod EXCEPT !.Volumes =
                << EmptyVolume,
                   [EmptyVolume EXCEPT !.Projected =
                       << << SourceOf({"ConfigMap", "Secret"}, r.kind, r.name) >> >>] >>]
        ELSE IF r.site.via = "imagePullSecret"
        THEN [pod EXCEPT !.ImagePullSecrets = << r.name >>]
        ELSE IF r.site.in = "init"
        THEN [pod EXCEPT !.InitContainers = << container >>]
        ELSE IF r.site.in = "regular"
        THEN [pod EXCEPT !.Containers = << Container(<<>>, <<>>), container >>]
        ELSE [pod EXCEPT !.EphemeralContainers = << container >>]

\* between two runs a pod whose envFrom.configMapRef names the listed ConfigMap
\* is created in the namespace
PodCreated ==
    /\ Again
    /\ cluster.kind = "ConfigMap"
    /\ Len(cluster.pods) < 2
    /\ cluster' = [cluster EXCEPT !.pods =
                      Append(@, PodWith([ site |-> [via |-> "envFrom", in |-> "regular"],
                                          kind |-> "ConfigMap",
                                          name |-> cluster.items[1].Name ]))]

\* the time of the first run
NowAtStart == 40 * Day

\* the answers drawn for the Services of the namespace
ServiceWorlds ==
    [ kind : {"Service"},
      now : {NowAtStart},
      listErr : {"", "services"},
      services : {<<>>, <<"s1">>, <<"s1", "s2">>},
      endpoints : [{"s1", "s2"} -> EndpointsAnswers] ]

\* the subject lists drawn for the one RoleBinding
SubjectLists ==
    { <<>>,
      << [Kind |-> "User", Namespace |-> "", Name |-> "sa"] >>,
      << [Kind |-> "ServiceAccount", Namespace |-> "", Name |-> "sa"] >>,
      << [Kind |-> "ServiceAccount", Namespace |-> "b", Name |-> "sa"] >>,
      << [Kind |-> "ServiceAccount", Namespace |-> "a", Name |-> "sa"],
         [Kind |-> "ServiceAccount", Namespace |-> "", Name |-> "sb"] >> }

\* the answers drawn for the RoleBindings of the namespace
RoleBindingWorlds ==
    { [ kind |-> "RoleBinding", now |-> NowAtStart, listErr |-> le,
        roleBindings |-> << [Name |-> "rb", RoleRef |-> ref, Subjects |-> subjects] >>,
        roles |-> roles, clusterRoles |-> clusterRoles, serviceAccounts |-> sas ] :
        le \in {"", "rolebindings", "roles", "clusterroles"},
        ref \in { [Kind |-> "Role", Name |-> "r"], [Kind |-> "ClusterRole", Name |-> "r"] },
        subjects \in SubjectLists,
        roles \in {{}, {"r"}}, clusterRoles \in {{}, {"r"}},
        sas \in [{"sa", "sb"} -> GetAnswers] }

\* the answers drawn for the ClusterRoleBindings of the cluster
ClusterRoleBindingWorlds ==
    { [ kind |-> "ClusterRoleBinding", now |-> NowAtStart, listErr |-> le,
        clusterRoleBindings |->
            << [ Name |-> name, RoleRef |-> [Kind |-> "ClusterRole", Name |-> "r"],
                 Subjects |-> subjects ] >>,
        clusterRoles |-> clusterRoles, serviceAccounts |-> sas ] :
        le \in {"", "clusterrolebindings", "clusterroles"},
        name \in DOMAIN NameTable,
        subjects \in SubjectLists,
        clusterRoles \in {{}, {"r"}},
        sas \in [{"sa", "sb"} -> GetAnswers] }

\* the Jobs drawn: with or without owner, succeeded, failed or neither, never
\* completed or completed now, 168 hours ago, or a minute earlier
JobWorlds ==
    { [ kind |-> "Job", now |-> NowAtStart, listErr |-> le,
        jobs |-> << [ Name |-> "j", OwnerReferences |-> owners, Succeeded |-> ended.s,
                      Failed |-> ended.f, CompletionTime |-> completed ] >> ] :
        le \in {"", "jobs"},
        owners \in {0, 1},
        ended \in { [s |-> 0, f |-> 0], [s |-> 1, f |-> 0], [s |-> 0, f |-> 1] },
        completed \in { <<>>, <<NowAtStart>>, <<NowAtStart - 168 * Hour>>,
                        <<NowAtStart - 168 * Hour - Minute>> } }

\* the CronJobs drawn: suspended or not, never successful or successful now,
\* 720 hours ago, or a minute earlier
CronJobWorlds ==
    { [ kind |-> "CronJob", now |-> NowAtStart, listErr |-> le,
        cronJobs |-> << [ Name |-> "cj", Suspend |-> suspend,
                          LastSuccessfulTime |-> last ] >> ] :
        le \in {"", "cronjobs"},
        suspend \in { <<>>, <<TRUE>>, <<FALSE>> },
        last \in { <<>>, <<NowAtStart>>, <<NowAtStart - 720 * Hour>>,
                   <<NowAtStart - 720 * Hour - Minute>> } }

\* the ConfigMaps, Secrets and PersistentVolumeClaims drawn: one object x, with
\* or without owner, in a namespace without pod or with one pod
UnusedWorlds ==
    { [ kind |-> kind, now |-> NowAtStart, listErr |-> le,
        items |-> << [Name |-> "x", OwnerReferences |-> owners] >>,
        pods |-> pods ] :
        kind \in {"ConfigMap", "Secret", "PersistentVolumeClaim"},
        le \in {"", "items", "pods"},
        owners \in {0, 1},
        pods \in {<<>>, <<EmptyPod>>} \cup { <<PodWith(r)>> : r \in References } }

InitDetect ==
    /\ spec = ZeroSpec
    /\ cluster \in ServiceWorlds \cup RoleBindingWorlds \cup ClusterRoleBindingWorlds
                   \cup JobWorlds \cup CronJobWorlds \cup UnusedWorlds
    /\ status = ZeroStatus
    /\ obj = ZeroStatus
    /\ pc = "Detect"
    /\ result = ZeroResult
    /\ clean = ZeroClean
    /\ send = ZeroSend
    /\ ctxDone = FALSE
    /\ ret = ZeroRet
    /\ events = <<>>
    /\ gathered = <<>>
    /\ log = <<>>
    /\ passes = <<>>

NextDetect ==
    \/ ScanServices
    \/ ScanRoleBindings
    \/ ScanClusterRoleBindings
    \/ ScanJobs
    \/ ScanCronJobs
    \/ ScanUnused
    \/ Elapse
    \/ AddressAdded
    \/ PodCreated

SpecDetect == InitDetect /\ [][NextDetect]_vars

----------------------------------------------------------------------------
(* The filter stage: scanConfigMaps over ConfigMaps that are all orphans *)

\* the candidate names drawn, and the patterns: "(" does not compile
FilterNames == {"cm", "cr", "ro"}

FilterPatterns == {"c", "ro", "("}

MaxPatterns == 2

\* the lists of distinct names: what a list call returns
NameLists ==
    { l \in UNION { [1..n -> FilterNames] : n \in 0..Cardinality(FilterNames) } :
        \A i, j \in DOMAIN l : i # j => l[i] # l[j] }

PatternLists == UNION { [1..n -> FilterPatterns] : n \in 0..MaxPatterns }

InitFilter ==
    /\ spec \in { [ZeroSpec EXCEPT !.Filters.ExcludeNamePatterns = pats] :
                     pats \in PatternLists }
    /\ cluster \in { [ kind |-> "ConfigMap", now |-> NowAtStart, listErr |-> "",
                        items |-> [i \in DOMAIN l |->
                                     [Name |-> l[i], OwnerReferences |-> 0]],
                        pods |-> <<>> ] : l \in NameLists }
    /\ status = ZeroStatus
    /\ obj = ZeroStatus
    /\ pc = "Detect"
    /\ result = ZeroResult
    /\ clean = ZeroClean
    /\ send = ZeroSend
    /\ ctxDone = FALSE
    /\ ret = ZeroRet
    /\ events = <<>>
    /\ gathered = <<>>
    /\ log = <<>>
    /\ passes = <<>>

NextFilter == ScanUnused

SpecFilter == InitFilter /\ [][NextFilter]_vars

\* the candidates of the run: the names OrphanConfigMaps returned, in order
Candidates == [i \in DOMAIN cluster.items |-> cluster.items[i].Name]

\* the names of the findings of the run, in order
FilteredNames == [i \in DOMAIN result.Details |-> result.Details[i].Name]

\* the patterns of the policy that compile
ValidPatterns == Range(spec.Filters.ExcludeNamePatterns) \cap DOMAIN PatternTable

\* a valid pattern of the policy matches the name
MatchedByValidPattern(name) == \E p \in ValidPatterns : name \in PatternTable[p]

PositionIn(names, name) == CHOOSE i \in DOMAIN names : names[i] = name

\* C36: the filter stage returns exactly the candidate names that match none of the
\* valid exclusion patterns, in their original order; an invalid pattern raises no
\* error, excludes no name and does not stop the patterns after it; and the per-kind
\* counter grows by the filtered count
C36_FilterStage ==
    pc = "Detected" =>
        /\ ret.err = NoErr
        /\ Range(FilteredNames)
             = { name \in Range(Candidates) : ~MatchedByValidPattern(name) }
        /\ \A i, j \in DOMAIN FilteredNames :
              i < j => PositionIn(Candidates, FilteredNames[i])
                         < PositionIn(Candidates, FilteredNames[j])
        /\ result.Summary.OrphanedConfigMaps = Len(FilteredNames)
        /\ \A i \in DOMAIN result.Details :
              result.Details[i].ResourceType = "ConfigMap"

\* an invalid pattern comes before a valid one that excludes the first of three
\* candidates: the other two are found, in their order, and counted
C36_Witness ==
    /\ pc = "Detected"
    /\ spec.Filters.ExcludeNamePatterns = <<"(", "ro">>
    /\ Candidates = <<"ro", "cr", "cm">>
    /\ FilteredNames = <<"cr", "cm">>
    /\ result.Summary.OrphanedConfigMaps = 2

\* the calls of the scan that the API server answered with an error other
\* than NotFound
FailedCalls == { j \in DOMAIN log : log[j].answer = "ServerError" }

\* C16: a list or get call that fails during a scan aborts it: Scan returns
\* the error and no result, and no finding is derived from a failed call, the
\* Endpoints Get per Service and the ServiceAccount Get per subject included
C16_FailedCallAbortsScan ==
    pc = "Detected" =>
        /\ FailedCalls # {} => ret.err # NoErr /\ result = ZeroResult
        /\ \A i \in DOMAIN result.Details :
             ~\E j \in FailedCalls : log[j].for = result.Details[i].Name

\* two runs were made over one cluster in which nothing but the time changed
TwoRunsOneSnapshot ==
    /\ Len(passes) = 2
    /\ passes[1].err = NoErr /\ passes[2].err = NoErr
    /\ [passes[1].world EXCEPT !.now = 0] = [passes[2].world EXCEPT !.now = 0]

\* as claimed: two runs of the detection rules over an unchanged cluster snapshot
\* yield the same set of (kind, namespace, name, reason) findings, whatever the
\* time elapsed between them
C25_AsClaimed ==
    TwoRunsOneSnapshot => passes[1].found = passes[2].found

\* the point in time a timestamp of the snapshot turns the age rule of its kind
\* on, when the rest of the rule holds: 168 hours after the completion of an
\* ownerless Job that succeeded or failed, 720 hours after the last success of a
\* suspended CronJob
TurningPoints(world) ==
    IF world.kind = "Job"
    THEN { world.jobs[k].CompletionTime[1] + 168 * Hour :
             k \in { i \in DOMAIN world.jobs :
                       /\ world.jobs[i].OwnerReferences = 0
                       /\ world.jobs[i].Succeeded + world.jobs[i].Failed > 0
                       /\ world.jobs[i].CompletionTime # <<>> } }
    ELSE IF world.kind = "CronJob"
    THEN { world.cronJobs[k].LastSuccessfulTime[1] + 720 * Hour :
             k \in { i \in DOMAIN world.cronJobs :
                       /\ world.cronJobs[i].Suspend = <<TRUE>>
                       /\ world.cronJobs[i].LastSuccessfulTime # <<>> } }
    ELSE {}

\* between the two runs a timestamp of the snapshot crossed its age threshold
ThresholdCrossed ==
    \E t \in TurningPoints(passes[1].world) :
        passes[1].world.now <= t /\ t < passes[2].world.now

\* C25: two runs of the detection rules over an unchanged cluster snapshot with
\* the same policy yield the same set of (kind, namespace, name, reason)
\* findings unless, between them, the completion of an ownerless finished Job
\* became more than 168 hours old or the last success of a suspended CronJob
\* more than 720 hours old; a resource whose timestamp crossed its threshold is
\* a finding of the second run only
C25_SameFindingsUntilThreshold ==
    TwoRunsOneSnapshot =>
        /\ ~ThresholdCrossed => passes[1].found = passes[2].found
        /\ ThresholdCrossed => passes[1].found = {} /\ passes[2].found # {}

\* a Service without Endpoints was found by two runs a day apart
C25_Witness ==
    /\ TwoRunsOneSnapshot
    /\ passes[1].world.kind = "Service"
    /\ passes[2].world.now = passes[1].world.now + Day
    /\ passes[1].found # {} /\ passes[1].found = passes[2].found

\* a Job completed more than 168 hours ago was found by two runs a day apart
C25_WitnessOldJob ==
    /\ TwoRunsOneSnapshot
    /\ passes[1].world.kind = "Job"
    /\ passes[2].world.now = passes[1].world.now + Day
    /\ passes[1].found # {} /\ passes[1].found = passes[2].found

\* the kinds reported for having no owner and no pod using them
UnusedKinds == {"ConfigMap", "Secret", "PersistentVolumeClaim"}

\* a run over the objects of such a kind and the pods of their namespace ended
UnusedDetected == pc = "Detected" /\ cluster.kind \in UnusedKinds /\ ret.err = NoErr

\* a pod of the namespace refers to the object of the scanned kind named name:
\* through a volume, a projected-volume source, an env or envFrom of an init,
\* regular or ephemeral container, or as an image pull secret
ReferencedByPod(name) ==
    \E p \in DOMAIN cluster.pods :
        /\ cluster.pods[p].reference # <<>>
        /\ cluster.pods[p].reference[1].kind = cluster.kind
        /\ cluster.pods[p].reference[1].name = name

\* C26: in a scanned namespace a ConfigMap, Secret or PersistentVolumeClaim is a
\* Finding, with reason NoOwnerReference, exactly when it has no owner reference
\* and no pod of the namespace refers to it through a volume, a projected-volume
\* source, an env or envFrom of an init, regular or ephemeral container, or (for
\* a Secret) as an image pull secret; once a pod whose envFrom.configMapRef names
\* a reported ConfigMap exists, the next scan does not report it
C26_UnusedAndUnowned ==
    UnusedDetected =>
        /\ \A i \in DOMAIN cluster.items :
             (<< cluster.kind, spec.TargetNamespace, cluster.items[i].Name,
                 "NoOwnerReference" >> \in FoundIn(result.Details))
             = (cluster.items[i].OwnerReferences = 0
                /\ ~ReferencedByPod(cluster.items[i].Name))
        /\ Len(result.Details) = Cardinality(FoundIn(result.Details))
        /\ \A i \in DOMAIN result.Details :
             /\ result.Details[i].Reason = "NoOwnerReference"
             /\ \E k \in DOMAIN cluster.items :
                  cluster.items[k].Name = result.Details[i].Name

\* a ConfigMap reported by one scan is not reported by the next, a pod whose
\* envFrom names it having been created in between
C26_Witness ==
    /\ UnusedDetected
    /\ cluster.kind = "ConfigMap"
    /\ Len(passes) = 2
    /\ passes[1].found = {<< "ConfigMap", "a", "x", "NoOwnerReference" >>}
    /\ passes[2].found = {}
    /\ Len(cluster.pods) > Len(passes[1].world.pods)

\* a Secret that only an env of an ephemeral container names is not reported
C26_WitnessEphemeral ==
    /\ UnusedDetected
    /\ cluster.kind = "Secret"
    /\ cluster.items[1].OwnerReferences = 0
    /\ Len(cluster.pods) = 1
    /\ cluster.pods[1].reference =
         << [ site |-> [via |-> "env", in |-> "ephemeral"], kind |-> "Secret",
              name |-> "x" ] >>
    /\ result.Details = <<>>

\* a run over the Services of a namespace ended
ServicesDetected == pc = "Detected" /\ cluster.kind = "Service" /\ ret.err = NoErr

\* the Services the run reported
ReportedServices == { result.Details[i].Name : i \in DOMAIN result.Details }

\* C27: a Service is a Finding, with reason NoEndpoints, exactly when its
\* Endpoints object is missing, or is present with zero ready plus not-ready
\* addresses summed over all subsets; a Service whose Endpoints has a ready
\* address is never reported, so adding one ready address removes it from the
\* next scan
C27_NoEndpointsRule ==
    ServicesDetected =>
        /\ \A svc \in Range(cluster.services) :
             (svc \in ReportedServices)
             = (\/ ~cluster.endpoints[svc].present
                \/ totalAddresses(cluster.endpoints[svc].subsets) = 0)
        /\ \A i \in DOMAIN result.Details :
             /\ result.Details[i].Reason = "NoEndpoints"
             /\ result.Details[i].Name \in Range(cluster.services)

\* a run over the RoleBindings of a namespace or the ClusterRoleBindings ended
BindingsDetected ==
    pc = "Detected" /\ cluster.kind \in {"RoleBinding", "ClusterRoleBinding"} /\ ret.err = NoErr

\* the bindings the cluster holds
BindingsOf(world) ==
    IF world.kind = "RoleBinding" THEN world.roleBindings ELSE world.clusterRoleBindings

\* the role reference target of a binding does not exist
TargetMissing(world, binding) ==
    IF binding.RoleRef.Kind = "Role"
    THEN binding.RoleRef.Name \notin world.roles
    ELSE binding.RoleRef.Name \notin world.clusterRoles

\* a ServiceAccount subject of the binding, in the namespace of a RoleBinding or
\* in the namespace a ClusterRoleBinding names, does not exist
SubjectMissing(world, binding) ==
    \E k \in DOMAIN binding.Subjects :
        /\ binding.Subjects[k].Kind = "ServiceAccount"
        /\ IF world.kind = "RoleBinding"
           THEN binding.Subjects[k].Namespace \in {"", spec.TargetNamespace}
           ELSE binding.Subjects[k].Namespace # ""
        /\ world.serviceAccounts[binding.Subjects[k].Name] = "NotFound"

\* C28: a RoleBinding or ClusterRoleBinding, whatever its name and roleRef kind,
\* is a Finding exactly when its role reference target does not exist or one of
\* its ServiceAccount subjects in the same namespace does not exist: no binding
\* satisfying that is omitted and no other binding is reported
C28_BindingRule ==
    BindingsDetected =>
        \A k \in DOMAIN BindingsOf(cluster) :
            (\E i \in DOMAIN result.Details :
                result.Details[i].Name = BindingsOf(cluster)[k].Name)
            = (\/ TargetMissing(cluster, BindingsOf(cluster)[k])
               \/ SubjectMissing(cluster, BindingsOf(cluster)[k]))

\* where the binding rule does hold: for the bindings not named system:... in
\* the runs in which no Get of a ServiceAccount was answered with a server error
C28_BindingRuleElsewhere ==
    BindingsDetected /\ FailedCalls = {} =>
        \A k \in DOMAIN BindingsOf(cluster) :
            ~isSystemBinding(BindingsOf(cluster)[k].Name) =>
                (\E i \in DOMAIN result.Details :
                    result.Details[i].Name = BindingsOf(cluster)[k].Name)
                = (\/ TargetMissing(cluster, BindingsOf(cluster)[k])
                   \/ SubjectMissing(cluster, BindingsOf(cluster)[k]))

\* WebhookStatus.FailureCount of a status, 0 when it has no WebhookStatus
FailureCountOf(st) ==
    IF st.WebhookStatus = <<>> THEN 0 ELSE st.WebhookStatus[1].FailureCount

\* the step of a pass that follows the delivery: Send has returned and the
\* pass records the outcome
RecordsDelivery == pc = "SendDone" /\ pc' = "Return"

C29_WitnessBeforeReset ==
    /\ pc = "SendDone"
    /\ send.attempts # <<>> /\ send.err = NoErr
    /\ FailureCountOf(status) = 1

\* the pass before the current one completed and stored its findings
PreviousPassCompleted ==
    \E c \in Range(status.Conditions) :
        c.Type = "Ready" /\ c.Status = "True" /\ c.Reason = "ScanCompleted"

\* the current pass stores the findings of its scan
StoresFindings == pc = "Scan" /\ status'.Phase = "Completed"

\* C30: for a resource reported as a Finding in two consecutive passes, the
\* DetectedAt of its Finding in the second pass is the DetectedAt it had in the
\* first: the time the orphan was first detected
C30_DetectedAtIsFirstDetection ==
    [][ StoresFindings /\ PreviousPassCompleted =>
          \A i \in DOMAIN status.Findings, j \in DOMAIN status'.Findings :
              Key(status.Findings[i]) = Key(status'.Findings[j]) =>
                  status'.Findings[j].DetectedAt = status.Findings[i].DetectedAt ]_vars

----------------------------------------------------------------------------
(* The order of the stages of one pass *)

CleanStages == {"Clean", "CleanLoop", "CleanDone"}

SendStages == {"Send", "SendOnce", "SendWait", "SendDone"}

\* the findings of this pass are stored, with phase Completed
FindingsPersisted ==
    /\ status.Phase = "Completed"
    /\ status.Findings = result.Details
    /\ status.LastScanTime = <<0>>

HasEvent(reason) == \E i \in 1..Len(events) : events[i].reason = reason

\* the cleanup stage is over: Clean has returned and Reconcile has put its outcome
\* into the status of the call and reported it
CleanupFinished ==
    /\ obj.CleanupStatus # <<>>
    /\ obj.CleanupStatus[1].Summary = clean.Summary
    /\ HasEvent("CleanupCompleted")

\* the update of the Completed status failed and Reconcile returned its error
PersistFailed ==
    /\ pc = "Return"
    /\ obj.Phase = "Completed"
    /\ ret.err = <<"update failed">>

\* C32: within a pass the stages run in the order scan, status persist, event
\* reporting, cleanup, webhook. While Clean runs, and whenever a delete call has been
\* issued, the findings of the pass are stored with phase Completed and the events of
\* the scan have been reported; while the webhook is sent the cleanup, if enabled, has
\* finished; and when the persist fails there is no event, no delete call, no cleanup
\* and no webhook attempt
C32_StageOrder ==
    /\ pc \in CleanStages =>
          /\ FindingsPersisted
          /\ spec.Reporting.CreateEvents => HasEvent("ScanCompleted")
          /\ send = ZeroSend
          /\ ~HasEvent("WebhookFailed")
    /\ (\E i \in 1..Len(log) : log[i].deleteCall) => FindingsPersisted
    /\ log # <<>> => pc \in CleanStages \cup SendStages \cup {"Return"}
    /\ pc \in SendStages =>
          /\ FindingsPersisted
          /\ spec.Reporting.CreateEvents => HasEvent("ScanCompleted")
          /\ (spec.Cleanup # <<>> /\ spec.Cleanup[1].Enabled) => CleanupFinished
          /\ (spec.Cleanup = <<>> \/ ~spec.Cleanup[1].Enabled) =>
                clean = ZeroClean /\ obj.CleanupStatus = <<>>
    /\ PersistFailed =>
          /\ events = <<>>
          /\ log = <<>>
          /\ clean = ZeroClean
          /\ send = ZeroSend

\* a webhook attempt is made after a cleanup that looked at a finding, with the
\* events of the scan reported
C32_Witness ==
    /\ pc = "SendOnce"
    /\ spec.Reporting.CreateEvents
    /\ CleanupFinished
    /\ clean.i > 1

\* the Completed update fails in a pass with events, cleanup and webhook configured
C32_WitnessPersistFailed ==
    /\ PersistFailed
    /\ spec.Reporting.CreateEvents
    /\ spec.Cleanup # <<>> /\ spec.Cleanup[1].Enabled
    /\ spec.Reporting.Webhook # <<>>
    /\ Len(result.Details) > 0

\* where a call of Reconcile stands once it has stored phase Running
AfterRunning == {"Scan"} \cup CleanStages \cup SendStages

\* the step with which a call of Reconcile that stored phase Running, and so ran a
\* scan, comes to its return
EndOfScannedPass == pc \in AfterRunning /\ pc' = "Return"

\* C33: every pass that persists phase Running ends, when Reconcile returns, with the
\* persisted phase Completed or Failed, whatever the scan and the later status
\* writes do; between two passes the stored phase is never Running
C33_NeverLeftRunning ==
    /\ [][EndOfScannedPass => status'.Phase \in {"Completed", "Failed"}]_vars
    /\ [](pc = "Idle" => status.Phase # "Running")

\* the status has one Ready condition, with this status and reason
ReadyIs(st, s, r) ==
    /\ Cardinality(ReadyOf(st)) = 1
    /\ \A i \in ReadyOf(st) : st.Conditions[i].Status = s /\ st.Conditions[i].Reason = r

\* the Ready condition of a status tells its phase
ReadyTellsPhase(st) ==
    /\ ReadyIs(st, "True", "ScanCompleted") <=> st.Phase = "Completed"
    /\ ReadyIs(st, "False", "ScanFailed") <=> st.Phase = "Failed"

\* the three orphan counts of a completed status are the number of its findings
CountsAreFindings(st) ==
    /\ \A i \in ReadyOf(st) :
          st.Conditions[i].Message = <<"Found orphaned resources", Len(st.Findings)>>
    /\ st.History # <<>> /\ st.History[1].OrphanCount = Len(st.Findings)
    /\ st.Summary.OrphanCount = Len(st.Findings)

\* C34: at the end of every pass that ran a scan the stored status has Ready True
\* with reason ScanCompleted iff its phase is Completed and Ready False with reason
\* ScanFailed iff its phase is Failed, and when it is Completed the count in the
\* condition message, History[0].OrphanCount and Summary.OrphanCount all equal the
\* number of stored Findings, which are exactly those of this pass
C34_ReadyFollowsPhase ==
    [][EndOfScannedPass =>
        /\ ReadyTellsPhase(status')
        /\ status'.Phase = "Completed" =>
              CountsAreFindings(status') /\ status'.Findings = result'.Details]_vars

\* the same of the status the pass has built, and of the stored one whenever the
\* status update that follows the scan succeeded: otherwise the stored status keeps
\* phase Running with the condition and the Findings stored before
ReadyFollowsPhaseWhenStored ==
    [][EndOfScannedPass =>
        /\ obj'.Phase \in {"Completed", "Failed"}
        /\ ReadyTellsPhase(obj')
        /\ obj'.Phase = "Completed" =>
              CountsAreFindings(obj') /\ obj'.Findings = result'.Details
        /\ status'.Phase \in {"Running", obj'.Phase}
        /\ status'.Phase = obj'.Phase =>
              /\ ReadyTellsPhase(status')
              /\ obj'.Phase = "Completed" =>
                    CountsAreFindings(status') /\ status'.Findings = result'.Details]_vars

\* the payload Send was called with
PayloadSent == send.payload[1]

\* C35: the summary in the webhook payload of a pass is the ScanSummary the pass
\* publishes in the status, cluster-wide orphan total included: the orphanCount of the
\* payload equals the sum of its per-kind counters and the number of findings in it
C35_PayloadSummaryIsPublishedSummary ==
    (pc \in SendStages /\ send.payload # <<>>) =>
        /\ PayloadSent.Summary = status.Summary
        /\ PayloadSent.Summary.OrphanCount = PerKindSum(PayloadSent.Summary)
        /\ PayloadSent.Summary.OrphanCount = Len(PayloadSent.Findings)

\* but for the orphan total, which the payload leaves at zero, the payload carries
\* the published summary and findings
PayloadButForTotal ==
    (pc \in SendStages /\ send.payload # <<>>) =>
        /\ [PayloadSent.Summary EXCEPT !.OrphanCount = status.Summary.OrphanCount]
             = status.Summary
        /\ PayloadSent.Summary.OrphanCount = 0
        /\ PerKindSum(PayloadSent.Summary) = Len(PayloadSent.Findings)
        /\ PayloadSent.Findings = status.Findings

\* the step with which a call of Reconcile starts a scan
StartOfScan == pc = "Idle" /\ pc' = "Scan"

\* C37: a new scan never starts less than one full interval after the previous pass
\* of the object ended, Completed or Failed: a pass that ran a scan ends with the
\* stored LastScanTime at the time of its end, which is what the cadence check of the
\* next call counts from, and a scan starts only when the stored LastScanTime is at
\* least one interval old
C37_FullIntervalBetweenScans ==
    /\ [][EndOfScannedPass => status'.LastScanTime = <<0>>]_vars
    /\ [][StartOfScan =>
            (status.LastScanTime # <<>> => status.LastScanTime[1] >= IntervalOf(spec))]_vars

\* the cadence check alone: a scan starts only when no LastScanTime is stored or the
\* stored one is at least one interval old, and a pass that stored its Completed
\* status ends with LastScanTime at the time of its end
IntervalAfterStoredScan ==
    /\ [][(EndOfScannedPass /\ status'.Phase = "Completed") =>
            status'.LastScanTime = <<0>>]_vars
    /\ [][StartOfScan =>
            (status.LastScanTime # <<>> => status.LastScanTime[1] >= IntervalOf(spec))]_vars

\* no pass has stored anything for the object: a due pass stores Running first, a
\* failed one its condition and a completed one its LastScanTime
NeverScanned ==
    /\ status.Phase # "Running"
    /\ status.LastScanTime = <<>>
    /\ status.Conditions = <<>>

\* C40: a policy object that has never been scanned is in phase Pending, from its
\* creation until the first due pass sets Running, and no pass sets the phase back
\* to Pending
C40_PendingUntilFirstPass ==
    /\ [](NeverScanned => status.Phase = "Pending")
    /\ [][status'.Phase = "Pending" => status.Phase = "Pending"]_vars

\* what the passes do to the phase: an object never scanned has the empty phase, and
\* a step that changes the stored phase sets Running, Completed or Failed
PhaseNeverSetToPending ==
    /\ [](NeverScanned => status.Phase = "")
    /\ [][status'.Phase # status.Phase =>
            status'.Phase \in {"Running", "Completed", "Failed"}]_vars

----------------------------------------------------------------------------
(* The operator, continued: the stored phase *)

\* a call of Reconcile begins when no scan has been stored or the interval has
\* passed since the last one
StartsDue ==
    /\ pc = "Idle" /\ pc' # "Idle"
    /\ status.LastScanTime = <<>> \/ status.LastScanTime[1] >= IntervalAsked

\* C17: the stored phase changes only from the initial phase, Completed or
\* Failed to Running as a due pass begins, from Running to Completed as its
\* scan succeeds and from Running to Failed as its scan fails, so never between
\* Completed and Failed directly; a due pass that begins from Completed or
\* Failed stores Running before it scans (when that write fails the pass ends
\* with the error and nothing stored has changed)
C17_PhaseEdges ==
    [][ /\ status'.Phase # status.Phase =>
             \/ /\ StartsDue
                /\ status.Phase \in {"", "Completed", "Failed"}
                /\ status'.Phase = "Running"
             \/ /\ pc = "Scan" /\ ret'.err # <<"list failed">>
                /\ status.Phase = "Running"
                /\ status'.Phase = "Completed"
                /\ status'.LastScanTime = <<0>>
             \/ /\ pc = "Scan" /\ ret'.err = <<"list failed">>
                /\ status.Phase = "Running"
                /\ status'.Phase = "Failed"
        /\ StartsDue =>
             \/ pc' = "Scan" /\ status'.Phase = "Running"
             \/ pc' = "Return" /\ ret'.err # <<>> /\ status' = status
        /\ pc' = "Scan" => status'.Phase = "Running"
      ]_vars

\* a due pass has stored Running over the Completed of the pass before it
C17_Witness ==
    /\ pc = "Scan"
    /\ status.Phase = "Running"
    /\ status.History # <<>>
    /\ \E i \in DOMAIN status.Conditions : status.Conditions[i].Reason = "ScanCompleted"

\* a due pass has stored Running over the Failed of the pass before it
C17_WitnessFromFailed ==
    /\ pc = "Scan"
    /\ status.Phase = "Running"
    /\ \E i \in DOMAIN status.Conditions : status.Conditions[i].Reason = "ScanFailed"

\* the policy has no cleanup section, or one that is switched off
CleanupOff == spec.Cleanup = <<>> \/ ~spec.Cleanup[1].Enabled

\* C20: under a policy without a cleanup section or with Enabled false no step
\* of a pass enters Clean, issues a delete call or a label lookup, or changes
\* the cluster, and CleanupStatus, stored and in memory, stays what the pass
\* read
C20_NoCleanupWhenOff ==
    [][ (CleanupOff /\ (pc # "Idle" \/ pc' # "Idle")) =>
          /\ pc' \notin {"Clean", "CleanLoop", "CleanDone"}
          /\ log' = <<>> /\ clean' = ZeroClean
          /\ cluster' = cluster
          /\ status'.CleanupStatus = status.CleanupStatus
          /\ pc' # "Idle" => obj'.CleanupStatus = status.CleanupStatus
          /\ \A i \in DOMAIN events' : events'[i].reason # "CleanupCompleted"
      ]_vars

\* a pass under a policy whose cleanup is off has stored its scan; the cleanup
\* outcome an earlier pass had stored is still there
C20_Witness ==
    /\ pc = "Return"
    /\ CleanupOff
    /\ ret.err = NoErr
    /\ status = obj
    /\ status.Phase = "Completed" /\ status.LastScanTime = <<0>>
    /\ status.Findings # <<>>
    /\ status.CleanupStatus = RetiredStatus.CleanupStatus
    /\ status.CleanupStatus # <<>>

\* the namespaces the policy excludes from scanning
Excluded == Range(spec.Filters.ExcludeNamespaces)

\* the scanX calls the pass makes under the policy
CallsOfPass ==
    scanCalls(getNamespacesToScan(spec),
              IF Len(spec.ResourceTypes) = 0 THEN DefaultTypes ELSE spec.ResourceTypes)

\* C22: for every policy, with the wildcard or a named namespace as its target, no
\* namespaced list call of a pass is made against a namespace of ExcludeNamespaces
\* and no Finding of the pass carries such a namespace
C22_ExcludedNamespacesUntouched ==
    pc \in {"Scan", "Return"} =>
        /\ \A k \in DOMAIN CallsOfPass : CallsOfPass[k].ns \notin Excluded
        /\ \A i \in DOMAIN status.Findings : status.Findings[i].Namespace \notin Excluded
        /\ \A i \in DOMAIN gathered : gathered[i].Namespace \notin Excluded

\* the findings of a list whose resource carries a label of Filters.ExcludeLabels
LabelExcluded(findings) ==
    { i \in DOMAIN findings :
        cluster[Key(findings[i])].labels \cap spec.Filters.ExcludeLabels # {} }

\* C23: a resource that carries a label listed in Filters.ExcludeLabels is not a
\* Finding of the pass and is not counted in its summary
C23_LabelledResourcesExcluded ==
    pc = "Return" /\ status.Phase = "Completed" =>
        /\ LabelExcluded(status.Findings) = {}
        /\ status.Summary.OrphanCount =
             Len(status.Findings) - Cardinality(LabelExcluded(status.Findings))

\* the type names the pass scans
TypesOfPass == IF Len(spec.ResourceTypes) = 0 THEN DefaultTypes ELSE spec.ResourceTypes

\* how many times a type name is on the list of the pass
TimesListed(rt) == Cardinality({ k \in DOMAIN TypesOfPass : TypesOfPass[k] = rt })

\* the orphans of a cluster-scoped kind that pass the name filter
ClusterScopedOrphans(kind) == applyFilters(Orphans(cluster, kind, ""), spec.Filters)

\* the cluster-scoped rows of the scan table whose type the pass scans
ClusterScopedAsked ==
    { k \in DOMAIN ScanTable :
        ScanTable[k].clusterScoped /\ ScanTable[k].type \in Range(TypesOfPass) }

\* a pass has completed and its status is built
PassCompleted == pc = "Return" /\ status.Phase = "Completed"

C24_WitnessManyNamespaces ==
    /\ PassCompleted
    /\ Len(getNamespacesToScan(spec)) = 2
    /\ spec.ResourceTypes = <<>>
    /\ Len(status.Findings) = 4
    /\ status.Summary.OrphanedClusterRoles = 1

\* the (kind, namespace, name) of a finding
ResourceOf(f) == << f.ResourceType, f.Namespace, f.Name >>

\* the orphans of a kind that the pass reports: those of the namespaces it scans, or
\* of the cluster, that no exclusion pattern filters out
ReportedOrphans(row) ==
    { ResourceOf(status.Findings[i]) : i \in FindingsOf(status.Findings, row) }

\* C38: for every policy, one that names the same kind more than once included, the
\* Findings of a pass hold each (kind, namespace, name) at most once and each orphan
\* adds exactly one to its per-kind counter
C38_EachOrphanOnce ==
    PassCompleted =>
        /\ \A i, j \in DOMAIN status.Findings :
              ResourceOf(status.Findings[i]) = ResourceOf(status.Findings[j]) => i = j
        /\ \A k \in DOMAIN ScanTable :
              status.Summary[ScanTable[k].counter] = Cardinality(ReportedOrphans(ScanTable[k]))

\* the same for the policies that name no type twice
EachOrphanOnceWithoutRepeats ==
    (PassCompleted /\ \A k \in DOMAIN ScanTable : TimesListed(ScanTable[k].type) <= 1) =>
        /\ \A i, j \in DOMAIN status.Findings :
              ResourceOf(status.Findings[i]) = ResourceOf(status.Findings[j]) => i = j
        /\ \A k \in DOMAIN ScanTable :
              status.Summary[ScanTable[k].counter] = Cardinality(ReportedOrphans(ScanTable[k]))

----------------------------------------------------------------------------
(* The operator with cleanup enabled, under fair scheduling: time keeps passing *)
(* and a call of Reconcile that can take its next step takes it                *)

AgingPolicies ==
    { [ZeroSpec EXCEPT !.Reporting.HistoryLimit = 1,
                       !.Cleanup = << [ Enabled |-> TRUE, DryRun |-> dr,
                                        ResourceTypes |-> <<>>, MinAgeDays |-> 1,
                                        PreservationLabels |-> <<>> ] >>] :
        dr \in {<<>>, <<FALSE>>} }

InitAging ==
    /\ spec \in AgingPolicies
    /\ cluster = ClusterOf({ObjCM}, {})
    /\ status = ZeroStatus
    /\ obj = ZeroStatus
    /\ pc = "Idle"
    /\ result = ZeroResult
    /\ clean = ZeroClean
    /\ send = ZeroSend
    /\ ctxDone = FALSE
    /\ ret = ZeroRet
    /\ events = <<>>
    /\ gathered = <<>>
    /\ log = <<>>
    /\ passes = <<>>

\* the steps of a call of Reconcile
Pass ==
    \/ ReconcileNotDue
    \/ ReconcileStart
    \/ ReconcileScanFailed
    \/ ReconcileScanned
    \/ CleanEnter
    \/ CleanStep
    \/ ReconcileCleaned
    \/ ReconcileReturn

NextAging == Pass \/ Tick \/ OtherActorDeletes \/ OtherActorChanges

SpecAging == InitAging /\ [][NextAging]_vars /\ WF_vars(Tick) /\ WF_vars(Pass)

\* Clean has counted the ConfigMap a/cm as deleted
CountedDeleted(o) ==
    \E i \in DOMAIN log : Key(log[i].finding) = o /\ log[i].branch = "deleted"

\* C5: with cleanup enabled, a resource that stays orphaned, so that every pass
\* reports it, is counted as deleted by some pass once it has been orphaned for
\* MinAgeDays, provided passes keep reaching the cleanup
C5_OrphanEventuallyDeleted ==
    ( /\ [](cluster[ObjCM].exists /\ cluster[ObjCM].orphan)
      /\ []<>(pc = "CleanDone") ) => <>CountedDeleted(ObjCM)

====
